---------------------------- MODULE Spec2Model ----------------------------
(***************************************************************************)
(* A model of the UPS SNMP monitoring system: the telemetry decoder and    *)
(* the device client (snmp_manager.py, ups_oids.py), the rotating log      *)
(* writer (data_logger.py) and the poll cycle engines with their           *)
(* coordinator (main.py).                                                  *)
(*                                                                         *)
(* Python values are tagged records: None, int, float (a decimal: num /    *)
(* 10^dec, normalised) and str (a sequence of characters; a run of         *)
(* non-numeric text is kept as one token).  A dict is the sequence of its  *)
(* <<key, value>> pairs in insertion order.                                *)
(***************************************************************************)
EXTENDS Integers, Sequences, FiniteSets, TLC

VARIABLES
    resp,       \* decoder run: the outcome of the SNMP request (input)
    rec,        \* decoder run: the dict returned by get_ups_status
    dpc,        \* decoder run: "call" before get_ups_status, "done" after
    files,      \* the log directory: path -> [lines, mtime]
    log_format, \* DataLogger.log_format
    clock,      \* the clock, in seconds
    hist,       \* per device, the appends done: [path, size, keys, at] of each
    last,       \* the last log_data call: [dev, data, ok]
    got,        \* the last get_latest_data call: [dev, n, records]
    exported,   \* the last export_data call: its arguments, result and destination
    channel,    \* the operator channel: the messages of the last poll cycle
    pc,         \* per engine, the place of its thread in _monitor_loop
    timer,      \* per engine, the seconds its network request still takes
    cycle_data, \* per engine, the record of its current cycle
    last_status,    \* per engine, UPSMonitor.last_status
    target,     \* per engine, the filepath and file_exists of its _log_csv
    started,    \* per engine, the cycles it has started
    handed,     \* per engine, its calls of log_data
    post,       \* per engine, its appends since the shutdown signal
    lock,       \* DataLogger.lock: the engine holding it, or NoHolder
    shutdown_event, \* the shutdown signal
    mainPc,     \* the place of the main thread in run()
    nextStart,  \* the monitors start() has started, as a count
    joining,    \* the monitor stop() is joining, as an index
    joinLeft    \* the seconds the join in progress still waits

-----------------------------------------------------------------------------
(* Python values *)

NoneV == [k |-> "none"]
IntV(n) == [k |-> "int", i |-> n]
StrV(cs) == [k |-> "str", s |-> cs]

IsNone(v) == v.k = "none"
IsInt(v) == v.k = "int"
IsFloat(v) == v.k = "float"
IsStr(v) == v.k = "str"

DigitChars == <<"0", "1", "2", "3", "4", "5", "6", "7", "8", "9">>

IsDigitChar(c) == \E i \in 1..Len(DigitChars) : DigitChars[i] = c

DigitVal(c) == (CHOOSE i \in 1..Len(DigitChars) : DigitChars[i] = c) - 1

\* str.isdigit(): non-empty and every character a digit
IsDigit(cs) == Len(cs) > 0 /\ \A i \in 1..Len(cs) : IsDigitChar(cs[i])

RECURSIVE CharsToInt(_)
\* int(value) of a digit string
CharsToInt(cs) ==
    IF Len(cs) = 0 THEN 0
    ELSE CharsToInt(SubSeq(cs, 1, Len(cs) - 1)) * 10 + DigitVal(cs[Len(cs)])

RECURSIVE NatToChars(_)
NatToChars(n) ==
    IF n < 10 THEN <<DigitChars[n + 1]>>
    ELSE NatToChars(n \div 10) \o <<DigitChars[(n % 10) + 1]>>

\* str(n) of an int
IntToChars(n) == IF n < 0 THEN <<"-">> \o NatToChars(0 - n) ELSE NatToChars(n)

\* datetime.now().isoformat() at clock reading t
IsoFormat(t) == <<"T">> \o NatToChars(t)

TsV(t) == StrV(IsoFormat(t))

RECURSIVE Remove(_, _)
\* str.replace(c, '')
Remove(cs, c) ==
    IF Len(cs) = 0 THEN <<>>
    ELSE (IF Head(cs) = c THEN <<>> ELSE <<Head(cs)>>) \o Remove(Tail(cs), c)

RECURSIVE Normalise(_, _)
\* a decimal num / 10^dec without trailing zero decimals
Normalise(num, dec) ==
    IF dec > 0 /\ num % 10 = 0 THEN Normalise(num \div 10, dec - 1)
    ELSE [k |-> "float", num |-> num, dec |-> dec]

FloatV(num, dec) == Normalise(num, dec)

\* the position of the '.' in cs, 0 when there is none
DotPos(cs) ==
    IF \E i \in 1..Len(cs) : cs[i] = "."
    THEN CHOOSE i \in 1..Len(cs) : cs[i] = "." /\ \A j \in 1..(i - 1) : cs[j] # "."
    ELSE 0

\* whether float(value) accepts the text: an optional sign, digits with at
\* most one '.', at least one digit
FloatOk(cs) ==
    LET body == IF Len(cs) > 0 /\ cs[1] = "-" THEN Tail(cs) ELSE cs
        p == DotPos(body)
        whole == IF p = 0 THEN body ELSE SubSeq(body, 1, p - 1)
        frac == IF p = 0 THEN <<>> ELSE SubSeq(body, p + 1, Len(body))
    IN  /\ Len(whole) + Len(frac) > 0
        /\ \A i \in 1..Len(whole) : IsDigitChar(whole[i])
        /\ \A i \in 1..Len(frac) : IsDigitChar(frac[i])

\* float(value) of a text FloatOk accepts
ParseFloat(cs) ==
    LET neg == Len(cs) > 0 /\ cs[1] = "-"
        body == IF neg THEN Tail(cs) ELSE cs
        p == DotPos(body)
        whole == IF p = 0 THEN body ELSE SubSeq(body, 1, p - 1)
        frac == IF p = 0 THEN <<>> ELSE SubSeq(body, p + 1, Len(body))
        mag == CharsToInt(whole \o frac)
    IN  FloatV(IF neg THEN 0 - mag ELSE mag, Len(frac))

\* a value left as it is, as a float
NotDivided(v) == IF IsInt(v) THEN FloatV(v.i, 0) ELSE v

\* value / 10.0
DivTen(v) == IF IsInt(v) THEN FloatV(v.i, 1) ELSE FloatV(v.num, v.dec + 1)

-----------------------------------------------------------------------------
(* dicts in insertion order *)

Keys(d) == {d[i][1] : i \in 1..Len(d)}

HasKey(d, key) == \E i \in 1..Len(d) : d[i][1] = key

Get(d, key) == d[CHOOSE i \in 1..Len(d) : d[i][1] = key][2]

\* d[key] = v: an existing key keeps its position
Put(d, key, v) ==
    IF HasKey(d, key)
    THEN [i \in 1..Len(d) |-> IF d[i][1] = key THEN <<key, v>> ELSE d[i]]
    ELSE Append(d, <<key, v>>)

RECURSIVE Update(_, _)
\* d.update(e)
Update(d, e) ==
    IF Len(e) = 0 THEN d ELSE Update(Put(d, e[1][1], e[1][2]), Tail(e))

-----------------------------------------------------------------------------
(* ups_oids.py *)

UPS_BATTERY ==
    <<"status", "time_on_battery", "minutes_remaining", "charge_remaining",
      "voltage", "current", "temperature">>

\* the names of the essential group, in the order of the request
ESSENTIAL_OIDS ==
    UPS_BATTERY \o
    <<"output_source", "output_voltage", "output_power", "output_load",
      "input_voltage", "input_frequency", "present_alarms">>

\* the words of a name of the essential group; a pattern of _parse_value
\* occurs in such a name exactly when it is one of its words
NameWords(name) ==
    CASE name = "status" -> {"status"}
      [] name = "time_on_battery" -> {"time", "on", "battery"}
      [] name = "minutes_remaining" -> {"minutes", "remaining"}
      [] name = "charge_remaining" -> {"charge", "remaining"}
      [] name = "voltage" -> {"voltage"}
      [] name = "current" -> {"current"}
      [] name = "temperature" -> {"temperature"}
      [] name = "output_source" -> {"output", "source"}
      [] name = "output_voltage" -> {"output", "voltage"}
      [] name = "output_power" -> {"output", "power"}
      [] name = "output_load" -> {"output", "load"}
      [] name = "input_voltage" -> {"input", "voltage"}
      [] name = "input_frequency" -> {"input", "frequency"}
      [] name = "present_alarms" -> {"present", "alarms"}
      [] OTHER -> {name}

\* pattern in name.lower()
Contains(name, pattern) == pattern \in NameWords(name)

\* a table that would know no code
NoLabel(code) == StrV(<<"unknown">>)

BATTERY_STATUS(code) ==
    CASE code = 1 -> StrV(<<"unknown">>)
      [] code = 2 -> StrV(<<"batteryNormal">>)
      [] code = 3 -> StrV(<<"batteryLow">>)
      [] code = 4 -> StrV(<<"batteryDepleted">>)
      [] OTHER -> StrV(<<"unknown (">> \o IntToChars(code) \o <<")">>)

OUTPUT_SOURCE(code) ==
    CASE code = 1 -> StrV(<<"other">>)
      [] code = 2 -> StrV(<<"none">>)
      [] code = 3 -> StrV(<<"normal">>)
      [] code = 4 -> StrV(<<"bypass">>)
      [] code = 5 -> StrV(<<"battery">>)
      [] code = 6 -> StrV(<<"booster">>)
      [] code = 7 -> StrV(<<"reducer">>)
      [] OTHER -> StrV(<<"unknown (">> \o IntToChars(code) \o <<")">>)

-----------------------------------------------------------------------------
(* snmp_manager.py *)

NoSuchObject == <<"No Such Object currently exists at this OID">>
NoSuchInstance == <<"No Such Instance currently exists at this OID">>

\* UPSSNMPManager._parse_value
_parse_value(name, value) ==
    IF value = NoSuchObject \/ value = NoSuchInstance THEN NoneV
    ELSE IF Contains(name, "status")
    THEN (IF IsDigit(value) THEN IntV(CharsToInt(value)) ELSE StrV(value))
    ELSE IF \E x \in {"voltage", "current", "power", "frequency", "temperature"} :
              Contains(name, x)
    THEN (IF IsDigit(Remove(Remove(value, "."), "-")) /\ FloatOk(value)
          THEN ParseFloat(value) ELSE StrV(value))
    ELSE IF \E x \in {"percent", "charge"} : Contains(name, x)
    THEN (IF IsDigit(value) THEN IntV(CharsToInt(value)) ELSE StrV(value))
    ELSE IF \E x \in {"time", "minutes", "seconds"} : Contains(name, x)
    THEN (IF IsDigit(value) THEN IntV(CharsToInt(value)) ELSE StrV(value))
    ELSE StrV(value)

\* the outcomes of the getCmd round trip of get_multiple_oids
IndicationR == [kind |-> "indication"]
ErrorStatusR == [kind |-> "error_status"]
ExceptionR == [kind |-> "exception"]
\* a fault raised while the request objects are built, before the try
FaultR == [kind |-> "fault"]
OkR(binds) == [kind |-> "ok", binds |-> binds]

\* a fetch that would answer a failed round trip with None for every name
NoneForEveryName(r) ==
    [i \in 1..(IF r.kind = "ok" /\ Len(r.binds) < Len(ESSENTIAL_OIDS)
               THEN Len(r.binds) ELSE Len(ESSENTIAL_OIDS)) |->
        <<ESSENTIAL_OIDS[i],
          IF r.kind = "ok" THEN _parse_value(ESSENTIAL_OIDS[i], r.binds[i]) ELSE NoneV>>]

\* UPSSNMPManager.get_multiple_oids(ESSENTIAL_OIDS), for an outcome that
\* does not raise
get_multiple_oids(r) ==
    IF r.kind # "ok" THEN <<>>
    ELSE [i \in 1..(IF Len(r.binds) < Len(ESSENTIAL_OIDS)
                    THEN Len(r.binds) ELSE Len(ESSENTIAL_OIDS)) |->
            <<ESSENTIAL_OIDS[i], _parse_value(ESSENTIAL_OIDS[i], r.binds[i])>>]

\* an iteration that would not skip a None
KeepAbsent(processed, key, value) == Put(processed, key, value)

\* one iteration of the loop of _process_ups_data
ProcessItem(processed, key, value) ==
    IF IsNone(value) THEN processed
    ELSE IF key = "status" /\ IsInt(value)
    THEN Put(Put(processed, "battery_status", BATTERY_STATUS(value.i)),
             "battery_status_code", value)
    ELSE IF key = "output_source" /\ IsInt(value)
    THEN Put(Put(processed, "output_source", OUTPUT_SOURCE(value.i)),
             "output_source_code", value)
    ELSE IF key \in {"voltage", "current", "frequency"} /\ (IsInt(value) \/ IsFloat(value))
    THEN Put(processed, key, DivTen(value))
    ELSE Put(processed, key, value)

RECURSIVE ProcessFrom(_, _)
ProcessFrom(processed, raw_data) ==
    IF Len(raw_data) = 0 THEN processed
    ELSE ProcessFrom(ProcessItem(processed, raw_data[1][1], raw_data[1][2]),
                     Tail(raw_data))

\* UPSSNMPManager._process_ups_data
_process_ups_data(raw_data) == ProcessFrom(<<>>, raw_data)

FaultMessage == <<"fault">>

\* UPSSNMPManager.get_ups_status, at clock reading now
get_ups_status(ip, now, r) ==
    LET data == <<<<"timestamp", TsV(now)>>, <<"ip", StrV(<<ip>>)>>,
                  <<"status", StrV(<<"online">>)>>, <<"error", NoneV>>>>
    IN  IF r.kind = "fault"
        THEN Put(Put(data, "status", StrV(<<"error">>)), "error", StrV(FaultMessage))
        ELSE IF Len(get_multiple_oids(r)) = 0
        THEN Put(Put(data, "status", StrV(<<"offline">>)),
                 "error", StrV(<<"No SNMP response">>))
        ELSE Update(data, _process_ups_data(get_multiple_oids(r)))

-----------------------------------------------------------------------------
(* data_logger.py: encodings *)

RECURSIVE Pow10(_)
Pow10(n) == IF n = 0 THEN 1 ELSE 10 * Pow10(n - 1)

RECURSIVE ZeroPad(_, _)
\* the digits cs preceded by zeros up to n characters
ZeroPad(cs, n) == IF Len(cs) >= n THEN cs ELSE ZeroPad(<<"0">> \o cs, n)

\* repr(x) of a float: at least one decimal
FloatToChars(v) ==
    LET mag == IF v.num < 0 THEN 0 - v.num ELSE v.num
        whole == NatToChars(mag \div Pow10(v.dec))
        frac == IF v.dec = 0 THEN <<"0">>
                ELSE ZeroPad(NatToChars(mag % Pow10(v.dec)), v.dec)
    IN  (IF v.num < 0 THEN <<"-">> ELSE <<>>) \o whole \o <<".">> \o frac

\* the text csv.writer writes for a value: '' for None, else str(value)
CsvCell(v) ==
    CASE IsNone(v) -> <<>>
      [] IsInt(v) -> IntToChars(v.i)
      [] IsFloat(v) -> FloatToChars(v)
      [] OTHER -> v.s

\* the text json.dump writes for a value
JsonText(v) ==
    CASE IsNone(v) -> <<"null">>
      [] IsInt(v) -> IntToChars(v.i)
      [] IsFloat(v) -> FloatToChars(v)
      [] OTHER -> <<"\"">> \o v.s \o <<"\"">>

\* the value json.loads reads from a text json.dump wrote
JsonValue(cs) ==
    IF cs = <<"null">> THEN NoneV
    ELSE IF cs[1] = "\"" THEN StrV(SubSeq(cs, 2, Len(cs) - 1))
    ELSE IF DotPos(cs) # 0 THEN ParseFloat(cs)
    ELSE IF cs[1] = "-" THEN IntV(0 - CharsToInt(Tail(cs)))
    ELSE IntV(CharsToInt(cs))

\* DataLogger._flatten_dict of a dict without nested dicts: each key is kept
\* (parent_key is ''), in order
_flatten_dict(d) == [i \in 1..Len(d) |-> <<d[i][1], d[i][2]>>]

\* writer.writeheader(): the fieldnames of this DictWriter
CsvHeader(flat_data) == [i \in 1..Len(flat_data) |-> <<flat_data[i][1]>>]

\* writer.writerow(flat_data): one cell per fieldname of this DictWriter
CsvRow(flat_data) == [i \in 1..Len(flat_data) |-> CsvCell(flat_data[i][2])]

\* json.dump(data, f) and the newline: the line of a record
JsonLine(data) == [i \in 1..Len(data) |-> <<data[i][1], JsonText(data[i][2])>>]

\* json.loads(line)
JsonRecord(line) == [i \in 1..Len(line) |-> <<line[i][1], JsonValue(line[i][2])>>]

\* the dict csv.DictReader makes of a row: cells beyond the header go to
\* the key None as a list, header names beyond the row get None
CsvRecord(header, row) ==
    LET n == IF Len(row) < Len(header) THEN Len(row) ELSE Len(header)
        named == [i \in 1..Len(header) |->
                    <<header[i][1], IF i <= n THEN StrV(row[i]) ELSE NoneV>>]
    IN  IF Len(row) > Len(header)
        THEN Append(named, <<"None", [k |-> "list",
                                      l |-> SubSeq(row, Len(header) + 1, Len(row))]>>)
        ELSE named

RECURSIVE TextBytes(_)
\* len() of a text
TextBytes(cs) == IF Len(cs) = 0 THEN 0 ELSE Len(Head(cs)) + TextBytes(Tail(cs))

RECURSIVE CellsBytes(_)
CellsBytes(line) ==
    IF Len(line) = 0 THEN 0 ELSE TextBytes(Head(line)) + CellsBytes(Tail(line))

RECURSIVE PairsBytes(_)
PairsBytes(line) ==
    IF Len(line) = 0 THEN 0
    ELSE Len(Head(line)[1]) + TextBytes(Head(line)[2]) + PairsBytes(Tail(line))

\* the bytes of a csv line: cells, commas and the \r\n
CsvLineBytes(line) == CellsBytes(line) + (Len(line) - 1) + 2

\* the bytes of a json line: braces, quoted keys, ': ', ', ' and the \n
JsonLineBytes(line) == 2 + PairsBytes(line) + 4 * Len(line) + 2 * (Len(line) - 1) + 1

-----------------------------------------------------------------------------
(* data_logger.py: files *)

\* a path of the log directory: <dev>[_<day>][_<sec>].<ext>; day or sec is
\* -1 when the name has no such part
Path(dev, day, sec, ext) == [dev |-> dev, day |-> day, sec |-> sec, ext |-> ext]

\* a file: its lines and the order number of its last write (st_mtime)
NoFiles == <<>>

Exists(fs, path) == path \in DOMAIN fs

RECURSIVE LinesBytes(_, _)
LinesBytes(lines, ext) ==
    IF Len(lines) = 0 THEN 0
    ELSE (IF ext = "csv" THEN CsvLineBytes(Head(lines)) ELSE JsonLineBytes(Head(lines)))
         + LinesBytes(Tail(lines), ext)

\* filepath.stat().st_size
StSize(fs, path) == LinesBytes(fs[path].lines, path.ext)

\* the order number of the next write
NextMtime(fs) ==
    IF DOMAIN fs = {} THEN 1
    ELSE 1 + (CHOOSE m \in {fs[p].mtime : p \in DOMAIN fs} :
                \A p \in DOMAIN fs : fs[p].mtime <= m)

\* open(filepath, 'a'): creates the file when it does not exist
OpenAppend(fs, path) ==
    IF Exists(fs, path) THEN fs
    ELSE [p \in DOMAIN fs \cup {path} |->
            IF p = path THEN [lines |-> <<>>, mtime |-> NextMtime(fs)] ELSE fs[p]]

\* what closing would leave of a file opened with mode 'w': the buffered
\* lines alone
FlushTruncated(fs, path, buffer) ==
    [fs EXCEPT ![path] = [lines |-> buffer, mtime |-> NextMtime(fs)]]

\* closing the file writes the buffered lines at its end
FlushClose(fs, path, buffer) ==
    IF Len(buffer) = 0 THEN fs
    ELSE [fs EXCEPT ![path] = [lines |-> @.lines \o buffer, mtime |-> NextMtime(fs)]]

LOG_ROTATION == TRUE

\* DataLogger._get_log_filename on day `day` at second `sec`
_get_log_filename(fs, device_name, fmt, max_bytes, day, sec) ==
    LET filepath == IF LOG_ROTATION THEN Path(device_name, day, -1, fmt)
                    ELSE Path(device_name, -1, -1, fmt)
    IN  IF Exists(fs, filepath) /\ StSize(fs, filepath) > max_bytes
        THEN Path(device_name, day, sec, fmt)
        ELSE filepath

\* the lines _log_csv / _log_json write through the open file
LogBuffer(fmt, data, file_exists) ==
    IF fmt = "csv"
    THEN (IF file_exists THEN <<>> ELSE <<CsvHeader(_flatten_dict(data))>>)
         \o <<CsvRow(_flatten_dict(data))>>
    ELSE <<JsonLine(data)>>

\* DataLogger.log_data run without interruption; io_ok is whether open()
\* succeeds (a failure is caught and reported, nothing is written)
log_data(fs, device_name, data, fmt, max_bytes, day, sec, io_ok) ==
    LET filepath == _get_log_filename(fs, device_name, fmt, max_bytes, day, sec)
        file_exists == Exists(fs, filepath)
    IN  IF ~io_ok \/ fmt \notin {"csv", "json"} THEN fs
        ELSE FlushClose(OpenAppend(fs, filepath), filepath,
                        LogBuffer(fmt, data, file_exists))

RECURSIVE IsPrefixOf(_, _)
\* text.startswith(prefix)
IsPrefixOf(prefix, text) ==
    \/ Len(prefix) = 0
    \/ Len(text) > 0 /\ Head(prefix) = Head(text) /\ IsPrefixOf(Tail(prefix), Tail(text))

\* glob(f"{device_name}*.{log_format}")
Glob(fs, device_name, fmt) ==
    {p \in DOMAIN fs : p.ext = fmt /\ IsPrefixOf(device_name, p.dev)}

\* list(csv.DictReader(f)) or the json.loads of each line
ReadRecords(fs, path) ==
    LET lines == fs[path].lines
    IN  IF path.ext = "csv"
        THEN [i \in 1..(IF Len(lines) = 0 THEN 0 ELSE Len(lines) - 1) |->
                CsvRecord(lines[1], lines[i + 1])]
        ELSE [i \in 1..Len(lines) |-> JsonRecord(lines[i])]

\* seq[-n:]
LastN(seq, n) ==
    IF n = 0 \/ n >= Len(seq) THEN seq ELSE SubSeq(seq, Len(seq) - n + 1, Len(seq))

\* DataLogger.get_latest_data
get_latest_data(fs, device_name, fmt, num_records) ==
    LET found == Glob(fs, device_name, fmt)
    IN  IF found = {} THEN <<>>
        ELSE LET filepath == CHOOSE p \in found : \A q \in found : fs[q].mtime <= fs[p].mtime
             IN  LastN(ReadRecords(fs, filepath), num_records)

\* the name of a log file, as _get_log_filename composes it: the stem, the
\* date (%Y%m%d), the time of a rotated file (%H%M%S) and the suffix
FileName(path) ==
    path.dev
    \o (IF path.day = -1 THEN <<>> ELSE <<"_">> \o ZeroPad(NatToChars(path.day), 8))
    \o (IF path.sec = -1 THEN <<>> ELSE <<"_">> \o ZeroPad(NatToChars(path.sec), 6))
    \o <<".", path.ext>>

\* ord() of the first character of a piece of a file name
Ord(c) ==
    IF IsDigitChar(c) THEN 48 + DigitVal(c)
    ELSE CASE c = "." -> 46
           [] c = "UPS_" -> 85
           [] c = "_" -> 95
           [] c = "csv" -> 99
           [] c = "json" -> 106

RECURSIVE TextBefore(_, _)
\* a < b of two strings
TextBefore(a, b) ==
    IF Len(b) = 0 THEN FALSE
    ELSE IF Len(a) = 0 THEN TRUE
    ELSE IF Head(a) = Head(b) THEN TextBefore(Tail(a), Tail(b))
    ELSE Ord(Head(a)) < Ord(Head(b))

RECURSIVE SortedByName(_)
\* sorted(paths): the paths in the order of their names
SortedByName(paths) ==
    IF paths = {} THEN <<>>
    ELSE LET first == CHOOSE p \in paths :
                        \A q \in paths \ {p} : TextBefore(FileName(p), FileName(q))
         IN  <<first>> \o SortedByName(paths \ {first})

RECURSIVE ReadAll(_, _)
\* the rows of the files, file after file
ReadAll(fs, paths) ==
    IF Len(paths) = 0 THEN <<>>
    ELSE ReadRecords(fs, Head(paths)) \o ReadAll(fs, Tail(paths))

\* datetime.fromisoformat(text) succeeds
IsoOk(v) == IsStr(v) /\ Len(v.s) > 1 /\ v.s[1] = "T" /\ IsDigit(Tail(v.s))

\* datetime.fromisoformat(text)
FromIsoFormat(v) == CharsToInt(Tail(v.s))

\* the date filter of export_data: a row without timestamp is kept, a row
\* outside [start_date, end_date] is skipped
InRange(row, start_date, end_date) ==
    IF ~HasKey(row, "timestamp") THEN TRUE
    ELSE LET timestamp == FromIsoFormat(Get(row, "timestamp"))
         IN  /\ IsNone(start_date) \/ ~(timestamp < start_date.i)
             /\ IsNone(end_date) \/ ~(timestamp > end_date.i)

RECURSIVE Joined(_, _)
\* sep.join(texts)
Joined(texts, sep) ==
    IF Len(texts) = 0 THEN <<>>
    ELSE IF Len(texts) = 1 THEN Head(texts)
    ELSE Head(texts) \o sep \o Joined(Tail(texts), sep)

\* str(value) as csv.DictWriter writes it: a list is written as its repr
ExportCell(v) ==
    IF v.k = "list"
    THEN <<"[">> \o Joined([i \in 1..Len(v.l) |-> <<"'">> \o v.l[i] \o <<"'">>],
                           <<",", " ">>) \o <<"]">>
    ELSE CsvCell(v)

\* json.dump of a value: a list is written as an array of strings
ExportJsonText(v) ==
    IF v.k = "list"
    THEN <<"[">> \o Joined([i \in 1..Len(v.l) |-> <<"\"">> \o v.l[i] \o <<"\"">>],
                           <<",", " ">>) \o <<"]">>
    ELSE JsonText(v)

\* csv.DictWriter._dict_to_list raises: the row has a key outside fieldnames
WrongFields(row, fieldnames) == \E i \in 1..Len(row) : ~HasKey(fieldnames, row[i][1])

\* the first row writerows() raises on, or 0
FirstWrong(all_data) ==
    IF \E i \in 1..Len(all_data) : WrongFields(all_data[i], all_data[1])
    THEN CHOOSE i \in 1..Len(all_data) :
            /\ WrongFields(all_data[i], all_data[1])
            /\ \A j \in 1..(i - 1) : ~WrongFields(all_data[j], all_data[1])
    ELSE 0

\* writer.writeheader() of the DictWriter of export_data: the key None is
\* written as ''
ExportHeader(fieldnames) ==
    [i \in 1..Len(fieldnames) |->
        IF fieldnames[i][1] = "None" THEN <<>> ELSE <<fieldnames[i][1]>>]

\* writer.writerow(row): one cell per fieldname, '' for a missing key
ExportRow(row, fieldnames) ==
    [i \in 1..Len(fieldnames) |->
        IF HasKey(row, fieldnames[i][1]) THEN ExportCell(Get(row, fieldnames[i][1]))
        ELSE <<>>]

\* json.dump(row): the key None is written as "null"
ExportJson(row) ==
    [i \in 1..Len(row) |->
        <<IF row[i][1] = "None" THEN "null" ELSE row[i][1], ExportJsonText(row[i][2])>>]

\* Path(output_file).suffix
Suffix(output_file) == output_file.s[Len(output_file.s)]

\* the destination before open(output_path, 'w')
NotOpened == [opened |-> FALSE, lines |-> <<>>]

\* the destination after the with block is left
Written(lines) == [opened |-> TRUE, lines |-> lines]

\* DataLogger.export_data: the value returned and the destination
export_data(fs, device_name, fmt, start_date, end_date, output_file) ==
    LET found == SortedByName(Glob(fs, device_name, fmt))
        rows == ReadAll(fs, found)
        KeepRow(row) == InRange(row, start_date, end_date)
    IN  IF \E i \in 1..Len(rows) :
                HasKey(rows[i], "timestamp") /\ ~IsoOk(Get(rows[i], "timestamp"))
        THEN [ok |-> FALSE, out |-> NotOpened]
        ELSE LET all_data == SelectSeq(rows, KeepRow)
                 wrong == FirstWrong(all_data)
             IN  IF IsNone(output_file) THEN [ok |-> TRUE, out |-> NotOpened]
                 ELSE IF Suffix(output_file) = ".csv"
                 THEN IF Len(all_data) = 0 THEN [ok |-> TRUE, out |-> Written(<<>>)]
                      ELSE IF wrong = 0
                      THEN [ok |-> TRUE,
                            out |-> Written(<<ExportHeader(all_data[1])>>
                                    \o [i \in 1..Len(all_data) |->
                                            ExportRow(all_data[i], all_data[1])])]
                      ELSE [ok |-> FALSE,
                            out |-> Written(<<ExportHeader(all_data[1])>>
                                    \o [i \in 1..(wrong - 1) |->
                                            ExportRow(all_data[i], all_data[1])])]
                 ELSE IF Suffix(output_file) = ".json"
                 THEN [ok |-> TRUE,
                       out |-> Written([i \in 1..Len(all_data) |-> ExportJson(all_data[i])])]
                 ELSE [ok |-> TRUE, out |-> NotOpened]

-----------------------------------------------------------------------------
(* The decoder run: get_ups_status applied to every outcome of the fetch *)

\* the raw texts a device returns for one OID
RawValues ==
    {<<"0">>, <<"1">>, <<"2">>, <<"3">>, <<"4">>, <<"9">>, <<"-", "1">>,
     <<"batteryNormal">>,
     <<"2", "4", "7">>, <<"2", "4", ".", "7">>, <<"1", ".", "2", ".", "3">>,
     <<>>, NoSuchObject, NoSuchInstance}

\* a response of a healthy device
TypicalBinds ==
    <<(* status *) <<"2">>, (* time_on_battery *) <<"0">>,
      (* minutes_remaining *) <<"9">>, (* charge_remaining *) <<"9", "9">>,
      (* voltage *) <<"2", "4", "7">>, (* current *) <<"1", "2">>,
      (* temperature *) <<"2", "5">>, (* output_source *) <<"3">>,
      (* output_voltage *) <<"2", "3", "0">>, (* output_power *) <<"4", "0", "0">>,
      (* output_load *) <<"4", "2">>, (* input_voltage *) <<"2", "2", "9">>,
      (* input_frequency *) <<"6", "0", "0">>, (* present_alarms *) <<"0">>>>

\* a response where every OID is reported as absent
AbsentBinds == [i \in 1..Len(ESSENTIAL_OIDS) |-> NoSuchObject]

\* a response with the value at position p replaced
WithValue(binds, p, value) == [binds EXCEPT ![p] = value]

\* a response where every other OID is reported as absent
AlternateBinds ==
    [i \in 1..Len(ESSENTIAL_OIDS) |->
        IF i % 2 = 0 THEN TypicalBinds[i] ELSE NoSuchInstance]

DecodeResponses ==
    {IndicationR, ErrorStatusR, ExceptionR, FaultR} \cup
    {OkR(WithValue(b, p, v)) :
        b \in {TypicalBinds, AbsentBinds, AlternateBinds},
        p \in 1..Len(ESSENTIAL_OIDS), v \in RawValues}

DeviceIp == "192.168.1.100"

NoRecord == <<>>

dvars == <<resp, rec, dpc>>

\* the variables of the log writer
lvars == <<files, log_format, clock, hist, last, got>>

\* the variables of the engines and of the coordinator
evars == <<pc, timer, cycle_data, last_status, target, started, handed, post>>

mvars == <<mainPc, nextStart, joining, joinLeft>>

svars == <<evars, lock, shutdown_event, mvars>>

\* the variables of the export and of the operator channel
xvars == <<exported, channel>>

vars == <<dvars, lvars, svars, xvars>>

\* the configured devices (config.py UPS_DEVICES), by name
Devices == {<<"UPS_", "1">>, <<"UPS_", "2">>}

DeviceIpOf(d) == IF d = <<"UPS_", "1">> THEN "192.168.1.100" ELSE "192.168.1.101"

NoLast == [dev |-> <<>>, data |-> <<>>, ok |-> FALSE]

NoRead == [dev |-> <<>>, n |-> -1, records |-> <<>>]

\* the log writer before any call
LogIdle ==
    /\ files = NoFiles
    /\ clock = 0
    /\ hist = [d \in Devices |-> <<>>]
    /\ last = NoLast
    /\ got = NoRead

NoHolder == <<>>

NoTarget == [path |-> <<>>, file_exists |-> FALSE]

\* no engine and no coordinator running
SysIdle ==
    /\ pc = [e \in Devices |-> "unborn"]
    /\ timer = [e \in Devices |-> 0]
    /\ cycle_data = [e \in Devices |-> NoRecord]
    /\ last_status = [e \in Devices |-> NoneV]
    /\ target = [e \in Devices |-> NoTarget]
    /\ started = [e \in Devices |-> 0]
    /\ handed = [e \in Devices |-> 0]
    /\ post = [e \in Devices |-> 0]
    /\ lock = NoHolder
    /\ shutdown_event = FALSE
    /\ mainPc = "idle"
    /\ nextStart = 0
    /\ joining = 0
    /\ joinLeft = 0

NoExport == [dev |-> <<>>]

NoChannel == [dev |-> <<>>]

\* no export was called and no cycle has written to the operator channel
RestIdle ==
    /\ exported = NoExport
    /\ channel = NoChannel

\* the decoder before any call
DecodeIdle ==
    /\ resp = IndicationR
    /\ rec = NoRecord
    /\ dpc = "idle"

DecodeInit ==
    /\ resp \in DecodeResponses
    /\ rec = NoRecord
    /\ dpc = "call"
    /\ log_format = "csv"
    /\ LogIdle
    /\ SysIdle
    /\ RestIdle

\* a caller invokes get_ups_status and receives the record
DecodeCall ==
    /\ dpc = "call"
    /\ rec' = get_ups_status(DeviceIp, 0, resp)
    /\ dpc' = "done"
    /\ UNCHANGED <<resp, lvars, svars, xvars>>

DecodeNext == DecodeCall

SpecDecode == DecodeInit /\ [][DecodeNext]_vars

-----------------------------------------------------------------------------
(* The log writer run: a caller appends the records of poll cycles and     *)
(* reads them back, while the clock advances                               *)

MaxAppends == 3
MaxClock == 3
MaxCount == 1

\* the seconds of a calendar day, scaled down to let the date change
DayLength == 3

\* DataLogger.max_size_mb * 1024 * 1024 of the logger of this run
MaxSizeBytes == 100

\* date.today() at clock reading t
DayOf(t) == t \div DayLength

\* a response where only the listed positions hold a value
SparseBinds(present) ==
    [i \in 1..Len(ESSENTIAL_OIDS) |-> IF i \in present THEN TypicalBinds[i] ELSE NoSuchObject]

\* the outcomes of the fetches whose records are appended
LogResponses == {IndicationR, OkR(SparseBinds({4})), OkR(SparseBinds({1, 4}))}

\* the device whose records are appended
LogDevices == {<<"UPS_", "1">>}

\* the record a poll cycle hands to log_data (main.py, _monitor_loop)
MonitorRecord(d, t, r) ==
    Put(get_ups_status(DeviceIpOf(d), t, r), "device_name", StrV(d))

RECURSIVE SumLen(_, _)
SumLen(h, ds) ==
    IF ds = {} THEN 0
    ELSE LET d == CHOOSE x \in ds : TRUE IN Len(h[d]) + SumLen(h, ds \ {d})

\* the number of appends done
Appends == SumLen(hist, Devices)

\* what an append leaves in hist: the file it went to, the size of that
\* file after it, the field names of the record in order and the time
AppendEntry(fs, path, data, t) ==
    [path |-> path, size |-> StSize(fs, path),
     keys |-> [i \in 1..Len(data) |-> data[i][1]], at |-> t]

\* the cycles of one engine are a poll interval apart (main.py,
\* shutdown_event.wait(POLL_INTERVAL)): its next record comes in a later second
NextCycleDue(d) == IF Len(hist[d]) = 0 THEN TRUE ELSE hist[d][Len(hist[d])].at < clock

LogInit ==
    /\ log_format \in {"csv", "json"}
    /\ LogIdle
    /\ DecodeIdle
    /\ SysIdle
    /\ RestIdle

\* a poll cycle of device d ends in log_data(d, data)
LogData(d, r) ==
    LET data == MonitorRecord(d, clock, r)
        path == _get_log_filename(files, d, log_format, MaxSizeBytes, DayOf(clock), clock)
        fs == log_data(files, d, data, log_format, MaxSizeBytes, DayOf(clock), clock, TRUE)
    IN  /\ Appends < MaxAppends
        /\ NextCycleDue(d)
        /\ files' = fs
        /\ hist' = [hist EXCEPT ![d] = Append(@, AppendEntry(fs, path, data, clock))]
        /\ last' = [dev |-> d, data |-> data, ok |-> TRUE]
        /\ got' = NoRead
        /\ UNCHANGED <<log_format, clock, dvars, xvars, svars>>

\* a caller reads the latest records of device d
GetLatest(d, n) ==
    /\ got = NoRead
    /\ last # NoLast
    /\ got' = [dev |-> d, n |-> n, records |-> get_latest_data(files, d, log_format, n)]
    /\ UNCHANGED <<files, log_format, clock, hist, last, dvars, xvars, svars>>

\* a second passes
Tick ==
    /\ clock < MaxClock
    /\ clock' = clock + 1
    /\ UNCHANGED <<files, log_format, hist, last, got, dvars, xvars, svars>>

LogNext ==
    \/ \E d \in LogDevices, r \in LogResponses : LogData(d, r)
    \/ \E d \in LogDevices, n \in 0..MaxCount : GetLatest(d, n)
    \/ Tick

SpecLog == LogInit /\ [][LogNext]_vars

-----------------------------------------------------------------------------
(* main.py: the engines (UPSMonitor._monitor_loop), the coordinator        *)
(* (UPSMonitoringSystem.run) and the shutdown signal.  Time passes in      *)
(* steps of TickSeconds while every thread is blocked.  The run is         *)
(* watched under one reading of the wall clock: the timestamps and file    *)
(* names over clock readings are the subject of the log writer run.        *)

MaxCycles == 2
TickSeconds == 5

SNMP_TIMEOUT == 5
SNMP_RETRIES == 3
JOIN_TIMEOUT == 5

\* the longest a request blocks: timeout x (retries + 1)
RequestBudget == SNMP_TIMEOUT * (SNMP_RETRIES + 1)

\* the durations of a request, to the tick
RequestDurations == {t \in 0..RequestBudget : t % TickSeconds = 0}

\* the outcomes of the fetches of the engines
SysResponses == {IndicationR, OkR(SparseBinds({4}))}

\* a configuration that names one device twice
OneDeviceTwice == <<<<"UPS_", "1">>, <<"UPS_", "1">>>>

\* UPS_DEVICES in the order of config.py
DeviceOrder == <<<<"UPS_", "1">>, <<"UPS_", "2">>>>

\* the csv logger of config.py
SysInit ==
    /\ log_format = "csv"
    /\ LogIdle
    /\ DecodeIdle
    /\ RestIdle
    /\ pc = [e \in Devices |-> "unborn"]
    /\ timer = [e \in Devices |-> 0]
    /\ cycle_data = [e \in Devices |-> NoRecord]
    /\ last_status = [e \in Devices |-> NoneV]
    /\ target = [e \in Devices |-> NoTarget]
    /\ started = [e \in Devices |-> 0]
    /\ handed = [e \in Devices |-> 0]
    /\ post = [e \in Devices |-> 0]
    /\ lock = NoHolder
    /\ shutdown_event = FALSE
    /\ mainPc = "start"
    /\ nextStart = 0
    /\ joining = 0
    /\ joinLeft = 0

RECURSIVE SumCount(_, _)
SumCount(count, ds) ==
    IF ds = {} THEN 0
    ELSE LET d == CHOOSE x \in ds : TRUE IN count[d] + SumCount(count, ds \ {d})

\* the process has not ended
Alive == mainPc # "exited"

\* UPSMonitoringSystem.start: the next monitor's thread starts, in
\* test_connection
Spawn(dur) ==
    /\ mainPc = "start"
    /\ nextStart < Len(DeviceOrder)
    /\ pc' = [pc EXCEPT ![DeviceOrder[nextStart + 1]] = "test"]
    /\ timer' = [timer EXCEPT ![DeviceOrder[nextStart + 1]] = dur]
    /\ nextStart' = nextStart + 1
    /\ UNCHANGED <<cycle_data, last_status, target, started, handed, post, lock,
                   shutdown_event, mainPc, joining, joinLeft, dvars, xvars, lvars>>

\* start() returns and run() enters its loop
StartDone ==
    /\ mainPc = "start"
    /\ nextStart = Len(DeviceOrder)
    /\ mainPc' = "run"
    /\ UNCHANGED <<evars, lock, shutdown_event, nextStart, joining, joinLeft, dvars, xvars, lvars>>

\* test_connection returns; its result only decides a warning
TestEnd(e) ==
    /\ Alive
    /\ pc[e] = "test"
    /\ timer[e] = 0
    /\ pc' = [pc EXCEPT ![e] = "loop"]
    /\ UNCHANGED <<timer, cycle_data, last_status, target, started, handed, post, lock,
                   shutdown_event, mvars, dvars, xvars, lvars>>

LoopContinuesAlways(event) == TRUE

\* while not shutdown_event.is_set()
LoopContinues(event) == ~event

\* the loop condition: the engine leaves, or starts a cycle with the request
\* of get_ups_status, which takes dur seconds and ends in r
LoopCheck(e, dur, r) ==
    /\ Alive
    /\ pc[e] = "loop"
    /\ IF LoopContinues(shutdown_event)
       THEN /\ pc' = [pc EXCEPT ![e] = "fetch"]
            /\ timer' = [timer EXCEPT ![e] = dur]
            /\ cycle_data' = [cycle_data EXCEPT ![e] = MonitorRecord(e, clock, r)]
            /\ started' = [started EXCEPT ![e] = @ + 1]
       ELSE /\ pc' = [pc EXCEPT ![e] = "done"]
            /\ UNCHANGED <<timer, cycle_data, started>>
    /\ UNCHANGED <<last_status, target, handed, post, lock, shutdown_event,
                   mvars, dvars, xvars, lvars>>

\* get_ups_status returns; the engine notes the status and calls log_data
FetchEnd(e) ==
    /\ Alive
    /\ pc[e] = "fetch"
    /\ timer[e] = 0
    /\ last_status' = [last_status EXCEPT ![e] = Get(cycle_data[e], "status")]
    /\ handed' = [handed EXCEPT ![e] = @ + 1]
    /\ pc' = [pc EXCEPT ![e] = "acquire"]
    /\ UNCHANGED <<timer, cycle_data, target, started, post, lock, shutdown_event,
                   mvars, dvars, xvars, lvars>>

CanAcquireAnyway(holder) == TRUE

\* with self.lock: the lock is free
CanAcquire(holder) == holder = NoHolder

\* log_data enters its with block
Acquire(e) ==
    /\ Alive
    /\ pc[e] = "acquire"
    /\ CanAcquire(lock)
    /\ lock' = e
    /\ pc' = [pc EXCEPT ![e] = "choose"]
    /\ UNCHANGED <<timer, cycle_data, last_status, target, started, handed, post,
                   shutdown_event, mvars, dvars, xvars, lvars>>

\* _get_log_filename and the test of filepath.exists()
Choose(e) ==
    LET filepath == _get_log_filename(files, e, log_format, MaxSizeBytes,
                                      DayOf(clock), clock)
    IN  /\ Alive
        /\ pc[e] = "choose"
        /\ target' = [target EXCEPT ![e] = [path |-> filepath,
                                            file_exists |-> Exists(files, filepath)]]
        /\ pc' = [pc EXCEPT ![e] = "write"]
        /\ UNCHANGED <<timer, cycle_data, last_status, started, handed, post, lock,
                       shutdown_event, mvars, dvars, xvars, lvars>>

KeepLockOnError(holder, io_ok) == IF io_ok THEN NoHolder ELSE holder

\* leaving the with block releases the lock, also on an exception
ReleaseLock(holder, io_ok) == NoHolder

\* the file is opened, the header (for a new file) and the row are written,
\* the file is closed and log_data returns; with io_ok false open() raises
WriteRow(e, io_ok) ==
    LET fs == FlushClose(OpenAppend(files, target[e].path), target[e].path,
                         LogBuffer(log_format, cycle_data[e], target[e].file_exists))
    IN  /\ Alive
        /\ pc[e] = "write"
        /\ files' = IF io_ok THEN fs ELSE files
        /\ hist' = IF io_ok
                   THEN [hist EXCEPT ![e] = Append(@, AppendEntry(fs, target[e].path,
                                                                 cycle_data[e], clock))]
                   ELSE hist
        /\ post' = IF io_ok /\ shutdown_event THEN [post EXCEPT ![e] = @ + 1] ELSE post
        /\ lock' = ReleaseLock(lock, io_ok)
        /\ pc' = [pc EXCEPT ![e] = "wait"]
        /\ cycle_data' = [cycle_data EXCEPT ![e] = NoRecord]
        /\ target' = [target EXCEPT ![e] = NoTarget]
        /\ UNCHANGED <<timer, last_status, started, handed, shutdown_event, mvars,
                       dvars, xvars, log_format, clock, last, got>>

\* the cycles started by all engines
CyclesStarted == SumCount(started, Devices)

\* shutdown_event.wait(POLL_INTERVAL) returns at the end of the interval;
\* the run is followed while fewer than MaxCycles cycles have started
WaitTimeout(e) ==
    /\ Alive
    /\ pc[e] = "wait"
    /\ CyclesStarted < MaxCycles
    /\ pc' = [pc EXCEPT ![e] = "loop"]
    /\ UNCHANGED <<timer, cycle_data, last_status, target, started, handed, post, lock,
                   shutdown_event, mvars, dvars, xvars, lvars>>

\* shutdown_event.wait(POLL_INTERVAL) returns because the event is set
WaitWake(e) ==
    /\ Alive
    /\ pc[e] = "wait"
    /\ shutdown_event
    /\ pc' = [pc EXCEPT ![e] = "loop"]
    /\ UNCHANGED <<timer, cycle_data, last_status, target, started, handed, post, lock,
                   shutdown_event, mvars, dvars, xvars, lvars>>

\* an event that a second set() would clear
ToggleEvent(event) == ~event

\* shutdown_event.set(): the event is set, whatever it was
SetEvent(event) == TRUE

\* signal_handler: SIGINT or SIGTERM arrives, for the first time or again
Signal ==
    /\ Alive
    /\ shutdown_event' = SetEvent(shutdown_event)
    /\ UNCHANGED <<evars, lock, mvars, dvars, xvars, lvars>>

\* the loop of run() sees the event and calls stop()
RunEnds ==
    /\ mainPc = "run"
    /\ shutdown_event
    /\ mainPc' = "stop"
    /\ UNCHANGED <<evars, lock, shutdown_event, nextStart, joining, joinLeft, dvars, xvars, lvars>>

\* stop() sets the event and turns to the first monitor
StopSet ==
    /\ mainPc = "stop"
    /\ shutdown_event' = SetEvent(shutdown_event)
    /\ mainPc' = "join"
    /\ joining' = 1
    /\ joinLeft' = JOIN_TIMEOUT
    /\ UNCHANGED <<evars, lock, nextStart, dvars, xvars, lvars>>

\* the monitor's thread is not alive (any more): stop() turns to the next
JoinReturns ==
    /\ mainPc = "join"
    /\ joining <= Len(DeviceOrder)
    /\ pc[DeviceOrder[joining]] = "done"
    /\ joining' = joining + 1
    /\ joinLeft' = JOIN_TIMEOUT
    /\ UNCHANGED <<evars, lock, shutdown_event, mainPc, nextStart, dvars, xvars, lvars>>

\* a join that would wait for the thread without a timeout
JoinNeverExpires(left) == FALSE

\* join(timeout=5): the timeout has elapsed
JoinExpired(left) == left = 0

\* join(timeout=5) gives up on a thread that is still alive
JoinTimesOut ==
    /\ mainPc = "join"
    /\ joining <= Len(DeviceOrder)
    /\ pc[DeviceOrder[joining]] # "done"
    /\ JoinExpired(joinLeft)
    /\ joining' = joining + 1
    /\ joinLeft' = JOIN_TIMEOUT
    /\ UNCHANGED <<evars, lock, shutdown_event, mainPc, nextStart, dvars, xvars, lvars>>

\* stop() and run() return and the process ends, with its daemon threads
Exit ==
    /\ mainPc = "join"
    /\ joining > Len(DeviceOrder)
    /\ mainPc' = "exited"
    /\ UNCHANGED <<evars, lock, shutdown_event, nextStart, joining, joinLeft, dvars, xvars, lvars>>

\* the engine can take a step without waiting
Ready(e) ==
    \/ pc[e] \in {"loop", "choose", "write"}
    \/ pc[e] \in {"test", "fetch"} /\ timer[e] = 0
    \/ pc[e] = "acquire" /\ lock = NoHolder
    \/ pc[e] = "wait" /\ shutdown_event

\* the main thread can take a step without waiting
MainReady ==
    \/ mainPc \in {"start", "stop"}
    \/ /\ mainPc = "join"
       /\ IF joining > Len(DeviceOrder) THEN TRUE
          ELSE pc[DeviceOrder[joining]] = "done" \/ JoinExpired(joinLeft)

Minus(a, b) == IF a > b THEN a - b ELSE 0

\* TickSeconds pass while every thread is blocked
SysTick ==
    /\ Alive
    /\ ~MainReady
    /\ \A e \in Devices : ~Ready(e)
    /\ timer' = [e \in Devices |->
                    IF pc[e] \in {"test", "fetch"} THEN Minus(timer[e], TickSeconds)
                    ELSE timer[e]]
    /\ joinLeft' = IF mainPc = "join" THEN Minus(joinLeft, TickSeconds) ELSE joinLeft
    /\ UNCHANGED <<pc, cycle_data, last_status, target, started, handed, post, lock,
                   shutdown_event, mainPc, nextStart, joining, dvars, xvars, lvars>>

EngineStep(e) ==
    \/ TestEnd(e)
    \/ \E dur \in RequestDurations, r \in SysResponses : LoopCheck(e, dur, r)
    \/ FetchEnd(e)
    \/ Acquire(e)
    \/ Choose(e)
    \/ \E io_ok \in BOOLEAN : WriteRow(e, io_ok)
    \/ WaitTimeout(e)
    \/ WaitWake(e)

MainStep ==
    \/ \E dur \in RequestDurations : Spawn(dur)
    \/ StartDone
    \/ RunEnds
    \/ StopSet
    \/ JoinReturns
    \/ JoinTimesOut
    \/ Exit

SysNext ==
    \/ \E e \in Devices : EngineStep(e)
    \/ MainStep
    \/ Signal
    \/ SysTick

SpecSys == SysInit /\ [][SysNext]_vars

\* every thread that can run does run, and time passes
SpecSysFair ==
    /\ SpecSys
    /\ \A e \in Devices : WF_vars(EngineStep(e))
    /\ WF_vars(MainStep)
    /\ WF_vars(SysTick)

\* the steps of an engine around one call of stop(): the poll interval of
\* 60 s does not end in it
FirstCycleStep(e) ==
    \/ TestEnd(e)
    \/ \E dur \in RequestDurations, r \in SysResponses : LoopCheck(e, dur, r)
    \/ FetchEnd(e)
    \/ Acquire(e)
    \/ Choose(e)
    \/ \E io_ok \in BOOLEAN : WriteRow(e, io_ok)
    \/ WaitWake(e)

StopNext ==
    \/ \E e \in Devices : FirstCycleStep(e)
    \/ MainStep
    \/ Signal
    \/ SysTick

\* the run around one call of stop(): every thread that can run does run,
\* and time passes
SpecStop ==
    /\ SysInit
    /\ [][StopNext]_vars
    /\ \A e \in Devices : WF_vars(FirstCycleStep(e))
    /\ WF_vars(MainStep)
    /\ WF_vars(SysTick)

-----------------------------------------------------------------------------
(* Claims about the record of get_ups_status *)

\* the entries get_ups_status and the engine set themselves
OwnKeys == {"timestamp", "ip", "status", "error", "device_name"}

\* the decoded telemetry fields of a record
DecodedKeys(r) == Keys(r) \ OwnKeys

IsOnline(r) == Get(r, "status") = StrV(<<"online">>)

\* error is None or the empty text
ErrorEmpty(r) == IsNone(Get(r, "error")) \/ Get(r, "error") = StrV(<<>>)

StatusEnum == {StrV(<<"online">>), StrV(<<"offline">>), StrV(<<"error">>)}

\* C1: every record returned by get_ups_status has status online if and
\* only if its error is empty, if and only if it holds at least one decoded
\* telemetry field, for every outcome of the fetch.
C1_OnlineIffNoErrorIffFields ==
    dpc = "done" =>
        /\ IsOnline(rec) <=> ErrorEmpty(rec)
        /\ ErrorEmpty(rec) <=> DecodedKeys(rec) # {}

\* C2: every record of get_ups_status has a top-level status among online,
\* offline and error, whatever raw value the device returns for an OID, and
\* the decoded fields leave the record's own timestamp, ip, status and
\* error entries as get_ups_status set them.
C2_StatusInEnumOwnKeysKept ==
    dpc = "done" =>
        /\ Get(rec, "status") \in StatusEnum
        /\ Get(rec, "timestamp") = TsV(0)
        /\ Get(rec, "ip") = StrV(<<DeviceIp>>)
        /\ IsOnline(rec) => IsNone(Get(rec, "error"))

-----------------------------------------------------------------------------
(* Claims about the log writer *)

\* the appends of device d that went to file f, in order
RECURSIVE AppendsTo(_, _)
AppendsTo(h, f) ==
    IF Len(h) = 0 THEN <<>>
    ELSE (IF Head(h).path = f THEN <<Head(h)>> ELSE <<>>) \o AppendsTo(Tail(h), f)

\* C4: within one date period, an append of a device goes to the file of
\* the device's previous append while that file has not exceeded the byte
\* ceiling, and to a new, distinct file once it has.
C4_RotateOnlyWhenExceeded ==
    \A d \in Devices : \A i \in 1..(Len(hist[d]) - 1) :
        hist[d][i].path.day = hist[d][i + 1].path.day =>
            IF hist[d][i].size > MaxSizeBytes
            THEN hist[d][i + 1].path # hist[d][i].path
            ELSE hist[d][i + 1].path = hist[d][i].path

\* C5: in the csv encoding every file starts with one header row, that of
\* the first record appended to it, holds no other header, and every later
\* row has exactly the header's fields in the header's order.
C5_CsvRowsMatchHeader ==
    log_format = "csv" =>
        \A d \in Devices : \A f \in {hist[d][i].path : i \in 1..Len(hist[d])} :
            LET apps == AppendsTo(hist[d], f)
            IN  /\ Len(files[f].lines) = 1 + Len(apps)
                /\ files[f].lines[1] = [i \in 1..Len(apps[1].keys) |-> <<apps[1].keys[i]>>]
                /\ \A i \in 1..Len(apps) : apps[i].keys = apps[1].keys

\* whether the value read back is the value written, up to the coercion of
\* the encoding (csv returns the text of every value)
SameField(fmt, read, written) ==
    IF fmt = "csv" THEN read = StrV(CsvCell(written)) ELSE read = written

\* C6: once log_data(name, r) has completed, get_latest_data(name, 1)
\* returns exactly one record, with the fields of r and the values of r up
\* to the coercion of the encoding.
C6_RoundTripLatest ==
    (got # NoRead /\ got.n = 1 /\ got.dev = last.dev /\ last.ok) =>
        /\ Len(got.records) = 1
        /\ Keys(got.records[1]) = Keys(last.data)
        /\ \A key \in Keys(last.data) :
              HasKey(got.records[1], key) =>
                  SameField(log_format, Get(got.records[1], key), Get(last.data, key))

-----------------------------------------------------------------------------
(* Claims about the engines and the coordinator *)

\* the rows of a file without its header
DataRows(fs, f) ==
    IF ~Exists(fs, f) \/ (f.ext = "csv" /\ Len(fs[f].lines) = 0) THEN 0
    ELSE IF f.ext = "csv" THEN Len(fs[f].lines) - 1 ELSE Len(fs[f].lines)

IsPrefixSeq(a, b) == Len(a) <= Len(b) /\ SubSeq(b, 1, Len(a)) = a

\* what a successful append of engine e does to the files
OneRowAdded(e) ==
    LET f == hist'[e][Len(hist'[e])].path
    IN  /\ f.dev = e
        /\ DataRows(files', f) = DataRows(files, f) + 1
        /\ \A g \in DOMAIN files' \ {f} : Exists(files, g) /\ files'[g] = files[g]

\* C3: every poll cycle of an engine hands exactly one record to log_data,
\* whatever the status and whether or not it changed; a successful append
\* adds one row to one file of that device, and no step removes or rewrites
\* a line written earlier.
C3_EveryCycleLoggedAppendOnly ==
    /\ [](\A e \in Devices :
            handed[e] = IF pc[e] = "fetch" THEN started[e] - 1 ELSE started[e])
    /\ [][/\ \A f \in DOMAIN files :
                Exists(files', f) /\ IsPrefixSeq(files[f].lines, files'[f].lines)
           /\ \A e \in Devices : hist'[e] # hist[e] => OneRowAdded(e)]_vars

\* an engine of which two cycles were logged with the same status
C3_Witness ==
    \E e \in Devices :
        /\ Len(hist[e]) = 2
        /\ hist[e][1].keys = hist[e][2].keys
        /\ hist[e][1].path = hist[e][2].path
        /\ DataRows(files, hist[e][1].path) = 2

InLogData == {"choose", "write"}

\* C7: at most one engine is between the choice of the file and the end of
\* the write, and it holds the lock; every file holds one header, that of
\* its first record, and one whole row for each append.
C7_AppendsMutuallyExclusive ==
    /\ Cardinality({e \in Devices : pc[e] \in InLogData}) <= 1
    /\ \A e \in Devices : pc[e] \in InLogData => lock = e
    /\ \A d \in Devices : \A f \in {hist[d][i].path : i \in 1..Len(hist[d])} :
          LET apps == AppendsTo(hist[d], f)
          IN  /\ Len(files[f].lines) = 1 + Len(apps)
              /\ files[f].lines[1] = [i \in 1..Len(apps[1].keys) |-> <<apps[1].keys[i]>>]
              /\ \A i \in 1..Len(apps) : Len(files[f].lines[i + 1]) = Len(apps[i].keys)

\* one engine writes while another waits for the lock
C7_Witness ==
    \E e, o \in Devices : pc[e] = "write" /\ pc[o] = "acquire" /\ lock = e

\* C8: the lock is held only between the choice of the file and the end of
\* the write, never during a network round trip; an engine waiting for the
\* lock waits for an engine that can go on, and an engine that does not wait
\* for its own request or for the lock can take its step whatever the other
\* engines do.
C8_NoEngineWaitsOnAnothersRequest ==
    /\ \A e \in Devices : lock = e => pc[e] \in InLogData
    /\ lock # NoHolder => lock \in Devices /\ Ready(lock)
    /\ \A e \in Devices : (Alive /\ Ready(e)) => ENABLED EngineStep(e)

\* a device blocks in its first request since its start while another
\* engine has its record appended
C8_Witness ==
    \E s, o \in Devices :
        /\ pc[s] \in {"test", "fetch"}
        /\ timer[s] = RequestBudget
        /\ Len(hist[s]) = 0
        /\ Len(hist[o]) >= 1

AllEnginesEnded == mainPc = "exited" \/ \A e \in Devices : pc[e] = "done"

\* C9: once the shutdown signal is set it stays set and no engine starts a
\* cycle; a waiting engine goes to its loop condition and from there out of
\* the loop; each engine appends at most one more record; and every engine
\* ends.
C9_ShutdownStopsScheduling ==
    /\ [][shutdown_event => (shutdown_event' /\ started' = started)]_vars
    /\ [][\A e \in Devices :
             (shutdown_event /\ pc[e] \in {"wait", "loop"})
                 => pc'[e] \in {pc[e], "loop", "done"}]_vars
    /\ [](\A e \in Devices : post[e] <= 1)
    /\ (shutdown_event ~> AllEnginesEnded)

\* an engine that was in a cycle at the signal has appended its record and
\* left its loop, another has left from its wait
C9_Witness ==
    \E e, o \in Devices :
        /\ shutdown_event
        /\ pc[e] = "done" /\ post[e] = 1
        /\ pc[o] = "done" /\ post[o] = 0 /\ started[o] >= 1

InCycle == {"fetch", "acquire", "choose", "write"}

\* C10: when the process ends no engine is inside a cycle: an engine that
\* was in a cycle at the shutdown signal has completed it, append included.
C10_NoEngineEndedMidCycle ==
    mainPc = "exited" => \A e \in Devices : pc[e] \notin InCycle

\* C11: stop() always returns: it sets the shutdown signal, waits for each
\* engine no longer than the grace period (when the grace period of a
\* join has elapsed stop() goes on, although the engine is alive), and
\* every call of stop() comes to its end.
C11_StopAlwaysReturns ==
    /\ [](mainPc \in {"join", "exited"} => shutdown_event)
    /\ [](mainPc = "join" => joinLeft <= JOIN_TIMEOUT)
    /\ []((mainPc = "join" /\ joining <= Len(DeviceOrder) /\ joinLeft = 0)
            => ENABLED MainStep)
    /\ (mainPc = "stop" ~> mainPc = "exited")

\* stop() has returned although it gave up on an engine that never left
\* its connection test
C11_Witness ==
    /\ mainPc = "exited"
    /\ \E e \in Devices : pc[e] = "test" /\ timer[e] > 0

\* the warnings stop() has written to the operator channel: it has no
\* logger.warning
StopWarnings == {}

\* stop() has logged "All monitoring threads stopped": its last statement,
\* under no condition
StopReportsAllStopped == mainPc = "exited"

\* C12: when stop() has given up on an engine, a warning names that engine,
\* and stop() reports that all threads stopped only when every engine has
\* left its loop.
C12_GivenUpEngineIsReported ==
    mainPc = "exited" =>
        /\ \A e \in Devices : pc[e] # "done" => e \in StopWarnings
        /\ StopReportsAllStopped => \A e \in Devices : pc[e] = "done"

-----------------------------------------------------------------------------
(* Claims about the decoding of the fields *)

IsAbsent(raw) == raw = NoSuchObject \/ raw = NoSuchInstance

\* the keys under which the value of an OID is emitted
FieldKeys(name) ==
    CASE name = "status" -> {"battery_status", "battery_status_code"}
      [] name = "output_source" -> {"output_source", "output_source_code"}
      [] OTHER -> {name}

\* the readings of a raw text: the text itself, its integer, its decimal
\* number, and that number in tenths
Readings(raw) ==
    {StrV(raw)}
    \cup (IF IsDigit(raw) THEN {IntV(CharsToInt(raw))} ELSE {})
    \cup (IF FloatOk(raw) THEN {ParseFloat(raw), DivTen(ParseFloat(raw))} ELSE {})

\* the record of a response without error has been returned
Decoded == dpc = "done" /\ resp.kind = "ok"

\* C13: in the record of an otherwise successful response, an OID reported
\* as absent has no key (neither null nor placeholder), an OID that returned
\* a value has its field, made from the value at its own position, and no
\* entry but error is None.
C13_AbsentOidsOmitted ==
    Decoded =>
        /\ \A k \in Keys(rec) \ {"error"} : ~IsNone(Get(rec, k))
        /\ \A i \in 1..Len(ESSENTIAL_OIDS) :
              LET name == ESSENTIAL_OIDS[i]
                  raw == resp.binds[i]
              IN  IF IsAbsent(raw)
                  THEN /\ FieldKeys(name) \cap Keys(rec) = {}
                       /\ name = "status" => IsOnline(rec)
                  ELSE IF name = "status"
                  THEN IF IsDigit(raw)
                       THEN Get(rec, "battery_status_code") = IntV(CharsToInt(raw))
                       ELSE Get(rec, "status") = StrV(raw)
                  ELSE /\ HasKey(rec, name)
                       /\ name # "output_source" => Get(rec, name) \in Readings(raw)

\* some OIDs of a response are absent and others returned a value
C13_Witness ==
    /\ Decoded
    /\ \E i, j, k \in 1..Len(ESSENTIAL_OIDS) :
          /\ resp.binds[i] = NoSuchObject
          /\ resp.binds[j] = NoSuchInstance
          /\ ~IsAbsent(resp.binds[k]) /\ HasKey(rec, ESSENTIAL_OIDS[k])

\* the position of a name in the request
PosOf(name) == CHOOSE i \in 1..Len(ESSENTIAL_OIDS) : ESSENTIAL_OIDS[i] = name

\* the raw text returned for a name
RawOf(name) == resp.binds[PosOf(name)]

\* a numeric raw text: an optional sign and digits with at most one '.'
IsNumeric(raw) == FloatOk(raw)

\* the number a decoded value stands for: itself, or the number its text
\* spells
NumberOf(v) ==
    IF IsInt(v) THEN FloatV(v.i, 0)
    ELSE IF IsFloat(v) THEN v
    ELSE ParseFloat(v.s)

\* a tenth of a number
Tenth(x) == FloatV(x.num, x.dec + 1)

\* C14: for every numeric raw value v, battery voltage and battery current
\* decode to the number v/10, and output voltage, input voltage, output
\* load and battery charge decode to the magnitude v itself.
C14_BatteryScaledOthersUnscaled ==
    Decoded =>
        /\ \A name \in {"voltage", "current"} :
              IsNumeric(RawOf(name)) =>
                  /\ IsFloat(Get(rec, name))
                  /\ Get(rec, name) = Tenth(ParseFloat(RawOf(name)))
        /\ \A name \in {"output_voltage", "input_voltage"} :
              IsNumeric(RawOf(name)) => Get(rec, name) = ParseFloat(RawOf(name))
        /\ \A name \in {"output_load", "charge_remaining"} :
              IsNumeric(RawOf(name)) =>
                  /\ IsInt(Get(rec, name)) \/ Get(rec, name) = StrV(RawOf(name))
                  /\ NumberOf(Get(rec, name)) = ParseFloat(RawOf(name))

\* raw 247 of the battery voltage gives 24.7 next to an output voltage of
\* 230, a load of 42 and a charge of 99
C14_Witness ==
    /\ Decoded
    /\ RawOf("voltage") = <<"2", "4", "7">>
    /\ Get(rec, "voltage") = FloatV(247, 1)
    /\ Get(rec, "output_voltage") = FloatV(230, 0)
    /\ NumberOf(Get(rec, "output_load")) = FloatV(42, 0)
    /\ Get(rec, "charge_remaining") = IntV(99)

\* C15: the input frequency of the essential group decodes to a tenth of
\* its numeric raw value (raw 600 gives 60.0) in the record of
\* get_ups_status.
C15_FrequencyScaled ==
    (Decoded /\ IsNumeric(RawOf("input_frequency"))) =>
        Get(rec, "input_frequency") = Tenth(ParseFloat(RawOf("input_frequency")))

\* the label of a battery status code
BatteryLabel(c) ==
    CASE c = 1 -> <<"unknown">>
      [] c = 2 -> <<"batteryNormal">>
      [] c = 3 -> <<"batteryLow">>
      [] c = 4 -> <<"batteryDepleted">>
      [] OTHER -> <<"unknown (">> \o NatToChars(c) \o <<")">>

\* C16: for every non-negative integer code c returned for the battery
\* status OID, battery_status is the label of c, or 'unknown (c)' for an
\* unmapped c, and battery_status_code is c in the same record.
C16_BatteryStatusMapped ==
    (Decoded /\ IsDigit(RawOf("status"))) =>
        LET c == CharsToInt(RawOf("status"))
        IN  /\ Get(rec, "battery_status") = StrV(BatteryLabel(c))
            /\ Get(rec, "battery_status_code") = IntV(c)

\* code 3 is batteryLow, with the code retained
C16_Witness ==
    /\ Decoded
    /\ RawOf("status") = <<"3">>
    /\ Get(rec, "battery_status") = StrV(<<"batteryLow">>)
    /\ Get(rec, "battery_status_code") = IntV(3)

\* the label of an output source code
SourceLabel(c) ==
    CASE c = 1 -> <<"other">>
      [] c = 2 -> <<"none">>
      [] c = 3 -> <<"normal">>
      [] c = 4 -> <<"bypass">>
      [] c = 5 -> <<"battery">>
      [] c = 6 -> <<"booster">>
      [] c = 7 -> <<"reducer">>
      [] OTHER -> <<"unknown (">> \o NatToChars(c) \o <<")">>

\* C17: for every integer code c returned for the output source OID, the
\* record of get_ups_status has output_source equal to the label of c and
\* output_source_code equal to c.
C17_OutputSourceMapped ==
    (Decoded /\ IsDigit(RawOf("output_source"))) =>
        LET c == CharsToInt(RawOf("output_source"))
        IN  /\ Get(rec, "output_source") = StrV(SourceLabel(c))
            /\ HasKey(rec, "output_source_code")
            /\ Get(rec, "output_source_code") = IntV(c)

\* the raw text cannot be read as the type _parse_value expects for the
\* name
Unparseable(name, raw) ==
    /\ ~IsAbsent(raw)
    /\ IF name \in {"status", "time_on_battery", "minutes_remaining", "charge_remaining"}
       THEN ~IsDigit(raw)
       ELSE IF name \in {"voltage", "current", "temperature", "output_voltage",
                         "output_power", "input_voltage", "input_frequency"}
       THEN ~FloatOk(raw)
       ELSE FALSE

\* the record of the healthy response
TypicalRecord == get_ups_status(DeviceIp, 0, OkR(TypicalBinds))

\* the response is the healthy one but for the value at position p
OnlyDiffersAt(p) ==
    \A i \in 1..Len(ESSENTIAL_OIDS) : i # p => resp.binds[i] = TypicalBinds[i]

\* C18: when a single field of a response, the battery status included,
\* cannot be parsed as its expected type, the record is emitted with status
\* online, holds the raw value of that field under the field's name, and
\* holds every other field as decoded from the healthy response.
C18_DecodeFailureIsolated ==
    Decoded =>
        \A p \in 1..Len(ESSENTIAL_OIDS) :
            (OnlyDiffersAt(p) /\ Unparseable(ESSENTIAL_OIDS[p], resp.binds[p])) =>
                /\ IsOnline(rec)
                /\ Get(rec, ESSENTIAL_OIDS[p]) = StrV(resp.binds[p])
                /\ \A k \in Keys(TypicalRecord) \ ({ESSENTIAL_OIDS[p]} \cup FieldKeys(ESSENTIAL_OIDS[p])) :
                      HasKey(rec, k) /\ Get(rec, k) = Get(TypicalRecord, k)

\* the round trip failed as a whole
FetchFailed(r) == r.kind \in {"indication", "error_status", "exception"}

\* C19: when the round trip ends with a transport indication, an error
\* status or an exception, get_multiple_oids returns an empty result and
\* the record is offline with a non-empty error message and no decoded
\* field; the call ends with the outcome of that one round trip.
C19_FailedFetchIsOffline ==
    /\ []((dpc = "done" /\ FetchFailed(resp)) =>
            /\ get_multiple_oids(resp) = <<>>
            /\ Get(rec, "status") = StrV(<<"offline">>)
            /\ IsStr(Get(rec, "error")) /\ Len(Get(rec, "error").s) > 0
            /\ DecodedKeys(rec) = {})
    /\ [][dpc = "call" => (dpc' = "done" /\ resp' = resp)]_vars

\* the record of a request that timed out
C19_Witness ==
    /\ dpc = "done"
    /\ resp = IndicationR
    /\ Get(rec, "error") = StrV(<<"No SNMP response">>)

-----------------------------------------------------------------------------
(* Claims about retrieval *)

\* C20: get_latest_data(name, count) returns at most count records, for
\* every count >= 0, the count 0 included.
C20_LatestAtMostCount ==
    got # NoRead => Len(got.records) <= got.n

-----------------------------------------------------------------------------
(* The export run: a fleet with a device whose name begins with the name   *)
(* of another appends records, and a caller reads the latest records or    *)
(* exports a range to a destination (main.py, main(): --export)            *)

Fleet == {<<"UPS_", "1">>, <<"UPS_", "1", "0">>}

MaxFleetAppends == 2
MaxBound == 2

\* start_date and end_date: None or a reading of the clock
ExportBounds == {NoneV} \cup {IntV(t) : t \in 1..MaxBound}

\* output_file: None or a path
ExportDests ==
    {NoneV, StrV(<<"out", ".csv">>), StrV(<<"out", ".json">>), StrV(<<"out", ".txt">>)}

ExportInit ==
    /\ log_format \in {"csv", "json"}
    /\ files = NoFiles
    /\ clock = 0
    /\ hist = [d \in Fleet |-> <<>>]
    /\ last = NoLast
    /\ got = NoRead
    /\ DecodeIdle
    /\ SysIdle
    /\ RestIdle

\* no caller has read or exported yet
NoCaller == got = NoRead /\ exported = NoExport

\* a poll cycle of device d of the fleet ends in log_data(d, data)
FleetLog(d, r) ==
    LET data == MonitorRecord(d, clock, r)
        path == _get_log_filename(files, d, log_format, MaxSizeBytes, DayOf(clock), clock)
        fs == log_data(files, d, data, log_format, MaxSizeBytes, DayOf(clock), clock, TRUE)
    IN  /\ NoCaller
        /\ SumLen(hist, Fleet) < MaxFleetAppends
        /\ IF Len(hist[d]) = 0 THEN TRUE ELSE hist[d][Len(hist[d])].at < clock
        /\ files' = fs
        /\ hist' = [hist EXCEPT ![d] = Append(@, AppendEntry(fs, path, data, clock))]
        /\ last' = [dev |-> d, data |-> data, ok |-> TRUE]
        /\ UNCHANGED <<log_format, clock, got, dvars, xvars, svars>>

\* a caller reads the latest records of device d of the fleet
FleetLatest(d, n) ==
    /\ NoCaller
    /\ last # NoLast
    /\ got' = [dev |-> d, n |-> n, records |-> get_latest_data(files, d, log_format, n)]
    /\ UNCHANGED <<files, log_format, clock, hist, last, dvars, xvars, svars>>

\* a caller exports the records of device d between start_date and end_date
Export(d, start_date, end_date, output_file) ==
    LET result == export_data(files, d, log_format, start_date, end_date, output_file)
    IN  /\ NoCaller
        /\ exported' = [dev |-> d, start_date |-> start_date, end_date |-> end_date,
                        output_file |-> output_file, ok |-> result.ok, out |-> result.out]
        /\ UNCHANGED <<lvars, channel, dvars, svars>>

ExportNext ==
    \/ \E d \in Fleet, r \in LogResponses : FleetLog(d, r)
    \/ \E d \in Fleet, n \in 0..MaxCount : FleetLatest(d, n)
    \/ \E d \in Fleet, a \in ExportBounds, b \in ExportBounds, o \in ExportDests :
            Export(d, a, b, o)
    \/ Tick

SpecExport == ExportInit /\ [][ExportNext]_vars

-----------------------------------------------------------------------------
(* export_data *)

\* an export was called
Exported == exported # NoExport

\* the export was given a destination with the suffix .csv or .json
HasDest ==
    /\ ~IsNone(exported.output_file)
    /\ Suffix(exported.output_file) \in {".csv", ".json"}

\* the time a record was stamped with
TimeOf(row) == CharsToInt(Tail(Get(row, "timestamp").s))

\* start <= t <= end, a missing bound not restricting
Within(row, a, b) ==
    /\ IsNone(a) \/ a.i <= TimeOf(row)
    /\ IsNone(b) \/ TimeOf(row) <= b.i

\* the records of the log files of device d, in file-name order and in
\* file order, that lie between a and b
Selected(d, a, b) ==
    LET own == {p \in DOMAIN files : p.dev = d /\ p.ext = log_format}
        InBounds(row) == Within(row, a, b)
    IN  SelectSeq(ReadAll(files, SortedByName(own)), InBounds)

\* the destination holds record row as its i-th record: every field of the
\* record is there under its name
HoldsRecord(out, suffix, i, row) ==
    IF suffix = ".csv"
    THEN /\ Len(out.lines) >= i + 1
         /\ \A j \in 1..Len(row) :
                \E c \in 1..Len(out.lines[1]) :
                    /\ out.lines[1][c] = (IF row[j][1] = "None" THEN <<>> ELSE <<row[j][1]>>)
                    /\ c <= Len(out.lines[i + 1])
                    /\ out.lines[i + 1][c] = ExportCell(row[j][2])
    ELSE /\ Len(out.lines) >= i
         /\ \A j \in 1..Len(row) :
                \E c \in 1..Len(out.lines[i]) :
                    out.lines[i][c] = ExportJson(row)[j]

\* the destination holds the records wanted, each once and in order
HoldsExactly(out, suffix, wanted) ==
    /\ out.opened
    /\ Len(out.lines) = (IF suffix = ".csv" /\ Len(wanted) > 0 THEN Len(wanted) + 1
                         ELSE Len(wanted))
    /\ \A i \in 1..Len(wanted) : HoldsRecord(out, suffix, i, wanted[i])

\* C21: an export of a device to a .csv or .json destination succeeds and
\* the destination holds exactly the records of the device's log files, in
\* file-name order and file order, whose timestamp lies within the bounds,
\* whatever the configured format and whatever the fields of the records
\* (stated where the log directory holds the files of this device alone).
C21_ExportWritesSelected ==
    (Exported /\ HasDest /\ \A p \in DOMAIN files : p.dev = exported.dev) =>
        /\ exported.ok
        /\ HoldsExactly(exported.out, Suffix(exported.output_file),
                        Selected(exported.dev, exported.start_date, exported.end_date))

\* C29: export_data reports success only when the destination was written
\* with the selected records (not without a destination, not for a
\* destination that is neither .csv nor .json), and after a reported
\* failure the destination holds no part of an export.
C29_SuccessOnlyWhenWritten ==
    Exported =>
        /\ exported.ok => (HasDest /\ exported.out.opened)
        /\ ~exported.ok => Len(exported.out.lines) = 0

-----------------------------------------------------------------------------
(* retrieval across the fleet *)

\* a record read from a log file was appended for device d: it carries the
\* name of d (in a csv row longer than its header, among the extra cells)
RecordOf(row, d) ==
    \E j \in 1..Len(row) :
        IF row[j][2].k = "list" THEN \E x \in 1..Len(row[j][2].l) : row[j][2].l[x] = d
        ELSE IF IsStr(row[j][2]) THEN row[j][2].s = d
        ELSE FALSE

\* the text holds the part
HasPart(text, part) ==
    \E k \in 0..(Len(text) - Len(part)) : SubSeq(text, k + 1, k + Len(part)) = part

\* a line of the destination was written from a record of device d: a
\* cell is the name of d, or a written list holds the name in its quotes
LineOf(line, suffix, d) ==
    IF suffix = ".csv"
    THEN \E c \in 1..Len(line) :
            line[c] = d \/ HasPart(line[c], <<"'">> \o d \o <<"'">>)
    ELSE \E c \in 1..Len(line) : HasPart(line[c][2], <<"\"">> \o d \o <<"\"">>)

\* the lines of the destination that hold records
RecordLines(out, suffix) ==
    IF suffix = ".csv" /\ Len(out.lines) > 0 THEN Tail(out.lines) ELSE out.lines

\* C28: get_latest_data(d, n) and export_data(d, ...) return only records
\* appended with log_data(d, ...), also when the name of d is the beginning
\* of the name of another device of the fleet.
C28_RetrievalOfOwnRecordsOnly ==
    /\ got # NoRead => \A i \in 1..Len(got.records) : RecordOf(got.records[i], got.dev)
    /\ (Exported /\ HasDest) =>
            LET lines == RecordLines(exported.out, Suffix(exported.output_file))
            IN  \A i \in 1..Len(lines) :
                    LineOf(lines[i], Suffix(exported.output_file), exported.dev)

-----------------------------------------------------------------------------
(* The reader run: an engine appends in the steps of log_data (the lock,   *)
(* the choice of the file, open() and the close that flushes the buffered  *)
(* header and row) while a caller reads with get_latest_data, which takes  *)
(* no lock                                                                  *)

ReadInit ==
    /\ log_format \in {"csv", "json"}
    /\ LogIdle
    /\ DecodeIdle
    /\ SysIdle
    /\ RestIdle

\* a cycle of engine e hands its record to log_data
CallLog(e, r) ==
    /\ pc[e] \in {"unborn", "wait"}
    /\ Appends < MaxAppends
    /\ NextCycleDue(e)
    /\ cycle_data' = [cycle_data EXCEPT ![e] = MonitorRecord(e, clock, r)]
    /\ pc' = [pc EXCEPT ![e] = "acquire"]
    /\ UNCHANGED <<timer, last_status, target, started, handed, post, lock,
                   shutdown_event, mvars, dvars, xvars, lvars>>

\* open(filepath, 'a') in _log_csv / _log_json: the file exists from now on;
\* what is written goes to the buffer of the file object
OpenFile(e) ==
    /\ pc[e] = "write"
    /\ files' = OpenAppend(files, target[e].path)
    /\ pc' = [pc EXCEPT ![e] = "close"]
    /\ UNCHANGED <<timer, cycle_data, last_status, target, started, handed, post, lock,
                   shutdown_event, mvars, dvars, xvars, log_format, clock, hist, last, got>>

\* the with block of the file is left: the buffer is flushed, the file is
\* closed, and log_data releases the lock and returns
CloseFile(e) ==
    LET fs == FlushClose(files, target[e].path,
                         LogBuffer(log_format, cycle_data[e], target[e].file_exists))
    IN  /\ pc[e] = "close"
        /\ files' = fs
        /\ hist' = [hist EXCEPT ![e] = Append(@, AppendEntry(fs, target[e].path,
                                                             cycle_data[e], clock))]
        /\ lock' = ReleaseLock(lock, TRUE)
        /\ pc' = [pc EXCEPT ![e] = "wait"]
        /\ cycle_data' = [cycle_data EXCEPT ![e] = NoRecord]
        /\ target' = [target EXCEPT ![e] = NoTarget]
        /\ UNCHANGED <<timer, last_status, started, handed, post, shutdown_event, mvars,
                       dvars, xvars, log_format, clock, last, got>>

\* a caller reads the latest records of device d, whatever the engines are
\* doing; appended is the number of appends of d completed by then
ReadLatest(d, n) ==
    /\ got = NoRead
    /\ got' = [dev |-> d, n |-> n, records |-> get_latest_data(files, d, log_format, n),
               appended |-> Len(hist[d])]
    /\ UNCHANGED <<files, log_format, clock, hist, last, dvars, xvars, svars>>

ReadNext ==
    \/ \E e \in LogDevices, r \in LogResponses : CallLog(e, r)
    \/ \E e \in LogDevices : Acquire(e) \/ Choose(e) \/ OpenFile(e) \/ CloseFile(e)
    \/ \E d \in LogDevices, n \in 0..MaxCount : ReadLatest(d, n)
    \/ Tick

SpecRead == ReadInit /\ [][ReadNext]_vars

\* C27: a reader that runs while log_data appends never sees a file in an
\* intermediate state of an append: whenever appends of the device are
\* completed, get_latest_data with a count of one or more returns records
\* (every file it can open holds its header and one or more whole rows).
C27_ReaderSeesWholeAppends ==
    (got # NoRead /\ got.n > 0 /\ got.appended > 0) => Len(got.records) > 0

-----------------------------------------------------------------------------
(* The cycle run: what one iteration of UPSMonitor._monitor_loop does from *)
(* the fetch to the wait, with the messages it sends to the operator       *)
(* channel (logger.info / warning / error)                                  *)

\* a change that would not be told of on the first cycle
ChangedAfterFirst(prev, status) == ~IsNone(prev) /\ prev # status

\* self.last_status != data.get('status')
StatusChanged(prev, status) == prev # status

\* data.get(key, 'N/A')
GetOrNA(data, key) == IF HasKey(data, key) THEN Get(data, key) ELSE StrV(<<"N/A">>)

\* data.get('present_alarms', 0) > 0 raises: a str is compared with an int
AlarmTestRaises(data) ==
    HasKey(data, "present_alarms") /\ IsStr(Get(data, "present_alarms"))

\* data.get('present_alarms', 0) > 0, where it does not raise
AlarmsActive(data) ==
    IF HasKey(data, "present_alarms")
    THEN IsInt(Get(data, "present_alarms")) /\ Get(data, "present_alarms").i > 0
    ELSE FALSE

\* UPSMonitor._display_summary: the messages it sends and whether it raises
_display_summary(device_name, data) ==
    IF Get(data, "status") = StrV(<<"online">>)
    THEN IF AlarmTestRaises(data) THEN [raised |-> TRUE, msgs |-> <<>>]
         ELSE [raised |-> FALSE,
               msgs |-> <<[kind |-> "summary", device |-> device_name,
                           battery |-> GetOrNA(data, "charge_remaining"),
                           load |-> GetOrNA(data, "output_load"),
                           output |-> GetOrNA(data, "output_voltage"),
                           source |-> GetOrNA(data, "output_source"),
                           alarms |-> IF AlarmsActive(data)
                                      THEN Get(data, "present_alarms") ELSE NoneV]>>]
    ELSE [raised |-> FALSE,
          msgs |-> <<[kind |-> "warning", device |-> device_name,
                      status |-> Get(data, "status"),
                      error |-> IF HasKey(data, "error") THEN Get(data, "error")
                                ELSE StrV(<<"Unknown error">>)]>>]

\* an except clause that would let the exception pass
CatchesNothing(raised) == ~raised

\* except Exception as e: every exception raised in the try block is caught
CatchesException(raised) == TRUE

\* the messages of one iteration: the status change, the failure of
\* log_data (caught and reported inside log_data), the summary or warning,
\* and the error the loop reports for an exception it caught
CycleMessages(device_name, prev, data, io_ok) ==
    (IF StatusChanged(prev, Get(data, "status"))
     THEN <<[kind |-> "status_changed", device |-> device_name,
             from |-> prev, to |-> Get(data, "status")]>>
     ELSE <<>>)
    \o (IF io_ok THEN <<>> ELSE <<[kind |-> "log_error", device |-> device_name]>>)
    \o _display_summary(device_name, data).msgs
    \o (IF _display_summary(device_name, data).raised
        THEN <<[kind |-> "loop_error", device |-> device_name]>>
        ELSE <<>>)

\* the outcomes of the fetches of the cycle run
CycleResponses ==
    {IndicationR, FaultR, OkR(SparseBinds({4})), OkR(TypicalBinds),
     OkR(WithValue(SparseBinds({4}), 1, <<"batteryNormal">>))}

\* the threads of the monitors run their loops
CycleInit ==
    /\ log_format = "csv"
    /\ LogIdle
    /\ DecodeIdle
    /\ RestIdle
    /\ pc = [e \in Devices |-> "loop"]
    /\ timer = [e \in Devices |-> 0]
    /\ cycle_data = [e \in Devices |-> NoRecord]
    /\ last_status = [e \in Devices |-> NoneV]
    /\ target = [e \in Devices |-> NoTarget]
    /\ started = [e \in Devices |-> 0]
    /\ handed = [e \in Devices |-> 0]
    /\ post = [e \in Devices |-> 0]
    /\ lock = NoHolder
    /\ shutdown_event = FALSE
    /\ mainPc = "run"
    /\ nextStart = Len(DeviceOrder)
    /\ joining = 0
    /\ joinLeft = 0

\* one pass of the while loop of engine e: the loop condition and, when it
\* holds, the iteration from get_ups_status (ending in r) over the status
\* change, log_data (whose open() succeeds or not) and _display_summary to
\* the except clause; the engine is then at shutdown_event.wait
CycleRun(e, r, io_ok) ==
    LET data == MonitorRecord(e, clock, r)
        path == _get_log_filename(files, e, log_format, MaxSizeBytes, DayOf(clock), clock)
        fs == log_data(files, e, data, log_format, MaxSizeBytes, DayOf(clock), clock, io_ok)
    IN  /\ pc[e] = "loop"
        /\ IF LoopContinues(shutdown_event)
           THEN /\ started' = [started EXCEPT ![e] = @ + 1]
                /\ handed' = [handed EXCEPT ![e] = @ + 1]
                /\ IF StatusChanged(last_status[e], Get(data, "status"))
                   THEN last_status' = [last_status EXCEPT ![e] = Get(data, "status")]
                   ELSE last_status' = last_status
                /\ files' = fs
                /\ hist' = IF io_ok
                           THEN [hist EXCEPT ![e] = Append(@, AppendEntry(fs, path, data, clock))]
                           ELSE hist
                /\ channel' = [dev |-> e, prev |-> last_status[e],
                               status |-> Get(data, "status"),
                               msgs |-> CycleMessages(e, last_status[e], data, io_ok)]
                /\ pc' = [pc EXCEPT ![e] =
                            IF CatchesException(_display_summary(e, data).raised)
                            THEN "wait" ELSE "done"]
           ELSE /\ pc' = [pc EXCEPT ![e] = "done"]
                /\ UNCHANGED <<started, handed, last_status, files, hist, channel>>
        /\ UNCHANGED <<timer, cycle_data, target, post, lock, shutdown_event, mvars,
                       dvars, exported, log_format, clock, last, got>>

CycleNext ==
    \/ \E e \in Devices, r \in CycleResponses, io_ok \in BOOLEAN : CycleRun(e, r, io_ok)
    \/ \E e \in Devices : WaitTimeout(e) \/ WaitWake(e)
    \/ Signal

SpecCycle == CycleInit /\ [][CycleNext]_vars

\* the cycle sent a message of this kind
HasMsg(msgs, kind) == \E i \in 1..Len(msgs) : msgs[i].kind = kind

\* engine e ran an iteration in this step
RanCycle(e) == started'[e] = started[e] + 1

\* C22: no failure inside a cycle ends the engine.  Whatever the cycle hits
\* (a failed fetch, a record that does not decode, an exception in the
\* iteration, a failure of the log's open), the engine is at its wait after
\* the iteration, no other engine and not the coordinator is touched, an
\* engine ends only once the shutdown signal is set, from the wait it goes
\* on to the loop test only, and an iteration whose log_data does not fail
\* appends its record whatever happened before.
C22_FailureEndsOnlyTheCycle ==
    /\ [](~shutdown_event => \A e \in Devices : pc[e] # "done")
    /\ [][\A e \in Devices :
            /\ RanCycle(e) =>
                /\ pc'[e] = "wait"
                /\ mainPc' = mainPc
                /\ \A o \in Devices \ {e} :
                        /\ pc'[o] = pc[o]
                        /\ last_status'[o] = last_status[o]
                        /\ hist'[o] = hist[o]
                /\ ~HasMsg(channel'.msgs, "log_error") =>
                        Len(hist'[e]) = Len(hist[e]) + 1
            /\ (pc[e] = "wait" /\ pc'[e] # "wait") => pc'[e] = "loop"
            /\ (pc[e] = "loop" /\ pc'[e] # "loop" /\ ~shutdown_event) => RanCycle(e)]_vars

\* an engine whose first iteration failed in log_data has run a second
\* iteration, which appended its record
C22_Witness ==
    \E e \in Devices :
        /\ started[e] = 2
        /\ pc[e] = "wait"
        /\ channel.dev = e
        /\ ~HasMsg(channel.msgs, "log_error")
        /\ Len(hist[e]) = 1

\* C23: a cycle reports a status change if and only if its status differs
\* from the status retained from the previous cycle (none at first, so the
\* first cycle reports), and after the cycle the retained status is the
\* status of that cycle.
C23_StatusChangeReported ==
    channel # NoChannel =>
        /\ HasMsg(channel.msgs, "status_changed") <=> (channel.prev # channel.status)
        /\ IsNone(channel.prev) => HasMsg(channel.msgs, "status_changed")
        /\ last_status[channel.dev] = channel.status

\* a later cycle of an engine found another status than the one retained
\* and reported the change
C23_Witness ==
    /\ channel # NoChannel
    /\ ~IsNone(channel.prev)
    /\ channel.prev # channel.status
    /\ HasMsg(channel.msgs, "status_changed")
    /\ last_status[channel.dev] = channel.status

\* a later cycle of an engine found the status retained and reported nothing
C23_Unchanged ==
    /\ channel # NoChannel
    /\ channel.prev = channel.status
    /\ ~HasMsg(channel.msgs, "status_changed")

\* C24: a cycle whose record has status online sends the one-line summary
\* and reports no error, whatever fields the record holds (present_alarms
\* as _parse_value decoded it included); a cycle with any other status
\* sends a warning with the device, the status and the error.
C24_SummaryForOnlineRecord ==
    channel # NoChannel =>
        IF channel.status = StrV(<<"online">>)
        THEN HasMsg(channel.msgs, "summary") /\ ~HasMsg(channel.msgs, "loop_error")
        ELSE HasMsg(channel.msgs, "warning")

-----------------------------------------------------------------------------
(* sequencing of the cycles and the shutdown signal set again *)

\* C25: per device at most one poll is in flight: the cycles an engine has
\* started are its calls of log_data, or one more while it fetches; it
\* starts the next cycle from its loop test only, reached from the end of
\* the wait (or, for the first cycle, of the connection test), and the wait
\* follows the return of log_data; start() starts one thread per configured
\* device, once.
C25_CyclesStrictlySequential ==
    /\ [](\A e \in Devices :
            /\ started[e] - handed[e] \in {0, 1}
            /\ started[e] - handed[e] = 1 <=> pc[e] = "fetch")
    /\ [](mainPc # "start" =>
            /\ nextStart = Cardinality(Devices)
            /\ \A e \in Devices : pc[e] # "unborn")
    /\ [][\A e \in Devices :
            /\ started'[e] # started[e] =>
                    (pc[e] = "loop" /\ pc'[e] = "fetch" /\ started'[e] = handed[e] + 1)
            /\ (pc'[e] = "loop" /\ pc[e] # "loop") => pc[e] \in {"test", "wait"}
            /\ (pc'[e] = "wait" /\ pc[e] # "wait") => pc[e] = "write"
            /\ (pc'[e] = "test" /\ pc[e] # "test") => pc[e] = "unborn"]_vars

\* an engine has handed its second record to the log writer
C25_Witness ==
    \E e \in Devices : started[e] = 2 /\ handed[e] = 2 /\ pc[e] = "wait"

\* C26: setting the shutdown signal again changes nothing: the signal is
\* never cleared, stop() after the signal handler leaves the signal, the
\* engines and the log as they are, a signal that arrives again leaves the
\* whole state as it is, an engine that has ended stays ended, and no
\* cycle starts once the signal is set.
C26_RepeatedSignalIsNoOp ==
    /\ [][shutdown_event => shutdown_event']_vars
    /\ [][(shutdown_event /\ mainPc = "stop" /\ mainPc' # "stop") =>
            /\ shutdown_event'
            /\ evars' = evars
            /\ lock' = lock
            /\ files' = files]_vars
    /\ [][(shutdown_event /\ Signal) => vars' = vars]_vars
    /\ [][\A e \in Devices : pc[e] = "done" => pc'[e] = "done"]_vars
    /\ [][shutdown_event => started' = started]_vars

\* stop() has set the signal after the signal handler had set it, and an
\* engine has ended
C26_Witness ==
    /\ shutdown_event
    /\ mainPc = "join"
    /\ \E e \in Devices : pc[e] = "done" /\ started[e] >= 1

-----------------------------------------------------------------------------
(* main_ups.py: the single-file poller.  Its main thread polls every       *)
(* device into one csv file per day, rotated by size, and sleeps           *)

\* the size from which the active file is rotated (MAX_LOG_SIZE_MB, scaled)
MaxLogBytes == 280

\* the longest sleep between two polls, in ticks of the clock
MaxSleep == 2

\* the names of UPS_DEVICES of main_ups.py
UPS_NAMES == <<"10F_UPS", "9F_UPS", "8F_UPS", "7F_UPS", "3F_UPS">>

\* ups_monitor_{date_str}.csv, or ups_monitor_{date_str}_{counter}.csv
UpsPath(date, counter) == Path(<<"ups_monitor">>, date, counter, "csv")

\* os.rename(src, dst): dst is replaced when it exists
Rename(fs, src, dst) ==
    [p \in (DOMAIN fs \ {src}) \cup {dst} |-> IF p = dst THEN fs[src] ELSE fs[p]]

\* a rotation that would always take the counter 1
AlwaysFirst(fs, date) == 1

\* the counter the while loop of get_log_file stops at: the first one whose
\* rotated name does not exist
FirstUnused(fs, date) ==
    CHOOSE c \in 1..(Cardinality(DOMAIN fs) + 1) :
        /\ ~Exists(fs, UpsPath(date, c))
        /\ \A k \in 1..(c - 1) : Exists(fs, UpsPath(date, k))

\* get_log_file(date_str): the files it leaves; it returns the active path
get_log_file(fs, date) ==
    LET log_file == UpsPath(date, -1)
    IN  IF LOG_ROTATION /\ Exists(fs, log_file) /\ StSize(fs, log_file) >= MaxLogBytes
        THEN Rename(fs, log_file, UpsPath(date, FirstUnused(fs, date)))
        ELSE fs

\* the header row of poll_ups
UpsHeader ==
    <<<<"Date">>, <<"Time">>, <<"Vin">>, <<"Vout">>, <<"Vbat">>, <<"Fin">>, <<"Fout">>,
      <<"Load">>, <<"Temp">>, <<"UPS_Name">>>>

\* the values a device answers with: Vin, Vout, Vbat, Fin, Fout, Load, Temp
UpsAnswer ==
    <<<<"2", "2", "9">>, <<"2", "3", "0">>, <<"2", "4", "7">>, <<"6", "0", "0">>,
      <<"6", "0", "0">>, <<"4", "2">>, <<"2", "5">>>>

\* the row of one device: float(v), a tenth of it for Vbat, Fin and Fout,
\* or 'N/A' for a device that does not answer
UpsRow(date, time, name, answers) ==
    <<NatToChars(date), NatToChars(time)>>
    \o [i \in 1..Len(UpsAnswer) |->
            IF ~answers THEN <<"N/A">>
            ELSE IF i \in {3, 4, 5} THEN CsvCell(DivTen(ParseFloat(UpsAnswer[i])))
            ELSE CsvCell(ParseFloat(UpsAnswer[i]))]
    \o <<<<name>>>>

\* the rows of one poll, one per device in the order of UPS_DEVICES
UpsRows(date, time, silent) ==
    [i \in 1..Len(UPS_NAMES) |-> UpsRow(date, time, UPS_NAMES[i], i \notin silent)]

\* the devices that do not answer in a poll
SilentSets == {{}, {1}, 1..Len(UPS_NAMES)}

UpsInit ==
    /\ log_format = "csv"
    /\ LogIdle
    /\ DecodeIdle
    /\ SysIdle
    /\ RestIdle

\* poll_ups calls get_log_file, which rotates a full active file
UpsGetLogFile ==
    /\ mainPc = "idle"
    /\ files' = get_log_file(files, DayOf(clock))
    /\ mainPc' = "write"
    /\ UNCHANGED <<evars, lock, shutdown_event, nextStart, joining, joinLeft, dvars, xvars,
                   log_format, clock, hist, last, got>>

\* poll_ups tests os.path.exists(log_file), opens the file for appending,
\* writes the header of a new file and a row per device, and closes it
UpsWrite(silent) ==
    LET log_file == UpsPath(DayOf(clock), -1)
        file_exists == Exists(files, log_file)
        buffer == (IF file_exists THEN <<>> ELSE <<UpsHeader>>)
                  \o UpsRows(DayOf(clock), clock, silent)
    IN  /\ mainPc = "write"
        /\ files' = FlushClose(OpenAppend(files, log_file), log_file, buffer)
        /\ mainPc' = "sleep"
        /\ UNCHANGED <<evars, lock, shutdown_event, nextStart, joining, joinLeft, dvars,
                       xvars, log_format, clock, hist, last, got>>

\* time.sleep(POLL_INTERVAL): the next poll is at a later reading of the clock
UpsSleep(dt) ==
    /\ mainPc = "sleep"
    /\ clock + dt <= MaxClock
    /\ clock' = clock + dt
    /\ mainPc' = "idle"
    /\ UNCHANGED <<evars, lock, shutdown_event, nextStart, joining, joinLeft, dvars, xvars,
                   files, log_format, hist, last, got>>

UpsNext ==
    \/ UpsGetLogFile
    \/ \E silent \in SilentSets : UpsWrite(silent)
    \/ \E dt \in 1..MaxSleep : UpsSleep(dt)

SpecUps == UpsInit /\ [][UpsNext]_vars

\* the data rows of a file of the poller
RowsOf(fs, p) == IF Len(fs[p].lines) = 0 THEN <<>> ELSE Tail(fs[p].lines)

\* the number of times a row is held by the files
Copies(fs, row) ==
    Cardinality({<<p, i>> \in UNION {{p} \X (1..Len(RowsOf(fs, p))) : p \in DOMAIN fs} :
                    RowsOf(fs, p)[i] = row})

\* every data row held by the files
AllRows(fs) == UNION {{RowsOf(fs, p)[i] : i \in 1..Len(RowsOf(fs, p))} : p \in DOMAIN fs}

\* the file has a counter suffix
IsRotated(p) == p.sec # -1

\* C30: in the single-file poller get_log_file never overwrites or removes
\* a rotated file, it renames the full active file to the first unused
\* counter, every row ever written stays in exactly one file, after a
\* rotation the active path does not exist, and every file begins with the
\* header row.
C30_RotationKeepsEveryRow ==
    /\ [][\A p \in DOMAIN files :
            IsRotated(p) => (p \in DOMAIN files' /\ files'[p] = files[p])]_vars
    /\ [][\A p \in DOMAIN files' \ DOMAIN files :
            IsRotated(p) =>
                /\ mainPc = "idle"
                /\ \A k \in 1..(p.sec - 1) : UpsPath(p.day, k) \in DOMAIN files
                /\ files'[p] = files[UpsPath(p.day, -1)]
                /\ UpsPath(p.day, -1) \notin DOMAIN files'
                /\ StSize(files, UpsPath(p.day, -1)) >= MaxLogBytes]_vars
    /\ [][\A row \in AllRows(files) : row \in AllRows(files')]_vars
    /\ [](\A row \in AllRows(files) : Copies(files, row) = 1)
    /\ [](\A p \in DOMAIN files : Len(files[p].lines) > 1 /\ files[p].lines[1] = UpsHeader)
    /\ [](mainPc = "sleep" =>
            \A i \in 1..Len(UPS_NAMES) :
                \E row \in AllRows(files) :
                    row[1] = NatToChars(DayOf(clock)) /\ row[2] = NatToChars(clock)
                    /\ row[Len(row)] = <<UPS_NAMES[i]>>)

\* a day's active file was rotated twice, and the active file is written
\* again: the files with the counters 1 and 2 and the active file exist
C30_Witness ==
    \E date \in 0..MaxClock :
        /\ UpsPath(date, 1) \in DOMAIN files
        /\ UpsPath(date, 2) \in DOMAIN files
        /\ UpsPath(date, -1) \in DOMAIN files
        /\ mainPc = "sleep"

=============================================================================
